---- MODULE Spec2Model ----
(***************************************************************************)
(* Model of gatsby's LocalNodeModel (schema/node-model.js): the per-type   *)
(* prepareNodes batching queue, the recursive field resolver, the page     *)
(* dependency tracker and the root-node ancestor walk.                     *)
(***************************************************************************)
EXTENDS Integers, Sequences, FiniteSets, TLC

(***************************************************************************)
(* Bounds of the model.                                                    *)
(***************************************************************************)
\* number of runQuery / prepareNodes calls issued in one behaviour
MaxCalls == 2
\* longest result list handed back by the filter/sort engine
MaxResult == 2
\* number of consecutive trackInlineObjectsInRootNode calls on one node
MaxTracks == 2
\* number of entries of modulesThatUseGatsby
MaxModules == 2

(***************************************************************************)
(* Field-shape descriptors: a mapping from field name to `true` (Leaf) or  *)
(* to a nested descriptor (Nested).                                        *)
(***************************************************************************)
EmptyShape == [k \in {} |-> TRUE]

Leaf == [leaf |-> TRUE, sub |-> EmptyShape]

Nested(s) == [leaf |-> FALSE, sub |-> s]

Shape1(k, v) == [x \in {k} |-> v]

\* _.isEmpty on a field shape
IsEmpty(s) == DOMAIN s = {}

\* lodash _.merge(object, source) on field shapes: a source leaf overwrites,
\* a source object is merged into an object and replaces a leaf
RECURSIVE Merge(_, _)
Merge(object, source) ==
    [k \in DOMAIN object \cup DOMAIN source |->
        IF k \notin DOMAIN source THEN object[k]
        ELSE IF k \notin DOMAIN object THEN source[k]
        ELSE IF source[k].leaf THEN source[k]
        ELSE IF object[k].leaf THEN source[k]
        ELSE Nested(Merge(object[k].sub, source[k].sub))]

RECURSIVE deepObjectDifference(_, _)
deepObjectDifference(from, to) ==
    LET keys == {k \in DOMAIN from :
                    \/ k \notin DOMAIN to
                    \/ /\ ~to[k].leaf
                       /\ ~IsEmpty(deepObjectDifference(from[k].sub, to[k].sub))}
    IN [k \in keys |->
          IF k \notin DOMAIN to THEN from[k]
          ELSE Nested(deepObjectDifference(from[k].sub, to[k].sub))]

\* every field path of a shape, as a sequence of keys
RECURSIVE Paths(_)
Paths(s) ==
    UNION {{<<k>>} \cup {<<k>> \o p : p \in Paths(s[k].sub)} : k \in DOMAIN s}

(***************************************************************************)
(* The schema the engine is constructed with (constructor argument):       *)
(* object types Post and Page implement the Node interface and the Content *)
(* interface, Meta is an inline object type, Any is a union of Post and    *)
(* Page.  "Ghost" is a name the schema does not know.                      *)
(***************************************************************************)
SchemaTypes == {"Post", "Page", "Meta", "Content", "Any"}

TypeKind(t) ==
    CASE t \in {"Post", "Page", "Meta"} -> "object"
      [] t = "Content" -> "interface"
      [] t = "Any" -> "union"

isAbstractType(t) == TypeKind(t) \in {"interface", "union"}

\* mutant: the union check of runQuery is skipped
isUnionTypeNever(t) == FALSE

isUnionType(t) == t \in SchemaTypes /\ TypeKind(t) = "union"

isCompositeType(t) == t \in SchemaTypes

getInterfaces(t) ==
    CASE t \in {"Post", "Page"} -> {"Node", "Content"}
      [] OTHER -> {}

getPossibleTypes(t) ==
    CASE t \in {"Content", "Any"} -> <<"Post", "Page">>
      [] OTHER -> <<>>

\* graphql fields of a type: named type of the field, whether a resolver is
\* registered for it
GqlFields(t) ==
    CASE t = "Post" ->
           [a |-> [type |-> "String", resolve |-> TRUE],
            b |-> [type |-> "String", resolve |-> TRUE],
            t |-> [type |-> "String", resolve |-> FALSE],
            c |-> [type |-> "Meta", resolve |-> FALSE],
            d |-> [type |-> "Meta", resolve |-> TRUE]]
      [] t = "Page" ->
           [a |-> [type |-> "String", resolve |-> TRUE],
            t |-> [type |-> "String", resolve |-> FALSE]]
      [] t = "Content" ->
           [a |-> [type |-> "String", resolve |-> FALSE],
            t |-> [type |-> "String", resolve |-> FALSE]]
      [] t = "Meta" ->
           [x |-> [type |-> "String", resolve |-> TRUE],
            y |-> [type |-> "String", resolve |-> FALSE]]
      [] OTHER -> EmptyShape

\* schemaComposer.getAnyTC(t).getFieldExtension(f, `needsResolve`)
getFieldExtension(t, f) ==
    \/ t \in {"Post", "Page"} /\ f \in {"a", "b"}
    \/ t = "Post" /\ f = "d"
    \/ t = "Meta" /\ f = "x"

Range(s) == {s[i] : i \in DOMAIN s}

toNodeTypeNames(gqlTypeName) ==
    IF gqlTypeName \notin SchemaTypes THEN <<>>
    ELSE LET possibleTypes == IF isAbstractType(gqlTypeName)
                              THEN getPossibleTypes(gqlTypeName)
                              ELSE <<gqlTypeName>>
         IN SelectSeq(possibleTypes, LAMBDA type : "Node" \in getInterfaces(type))

(***************************************************************************)
(* Query Field Planner.  A filter object is the sequence of its            *)
(* <<key, value>> entries in insertion order; a value is a scalar or again *)
(* an object.  A dotted path is the sequence of its segments.              *)
(***************************************************************************)
FScalar == [plain |-> FALSE, obj |-> <<>>]

FObject(entries) == [plain |-> TRUE, obj |-> entries]

pathToObject(path) ==
    IF Len(path) = 0 THEN EmptyShape
    ELSE LET RECURSIVE build(_)
             build(i) == IF i = Len(path) THEN Shape1(path[i], Leaf)
                         ELSE Shape1(path[i], Nested(build(i + 1)))
         IN build(1)

RECURSIVE dropQueryOperators(_)
dropQueryOperators(filter) ==
    LET conv(value) ==
            IF value.plain /\ Len(value.obj) > 0 /\ value.obj[1][2].plain
            THEN Nested(IF value.obj[1][1] = "elemMatch"
                        THEN dropQueryOperators(value.obj[1][2].obj)
                        ELSE dropQueryOperators(value.obj))
            ELSE Leaf
    IN [key \in {filter[i][1] : i \in DOMAIN filter} |->
          conv((CHOOSE e \in Range(filter) : e[1] = key)[2])]

RECURSIVE MergeAll(_, _)
MergeAll(object, sources) ==
    IF sources = <<>> THEN object
    ELSE MergeAll(Merge(object, Head(sources)), Tail(sources))

\* group / distinct: absent, a single path, or a list of paths
NoPaths == [kind |-> "none", paths |-> <<>>]

OnePath(path) == [kind |-> "one", paths |-> <<path>>]

PathList(paths) == [kind |-> "list", paths |-> paths]

getQueryFields(query) ==
    LET filterFields == dropQueryOperators(query.filter)
        sortFields == query.sort
        group == IF query.group.kind = "none" THEN <<>> ELSE query.group.paths
        distinct == IF query.distinct.kind = "none" THEN <<>> ELSE query.distinct.paths
        paths == sortFields \o group \o distinct
    IN MergeAll(filterFields, [i \in DOMAIN paths |-> pathToObject(paths[i])])

(***************************************************************************)
(* Resolvable-Field Determiner.                                            *)
(***************************************************************************)
\* mutant: fields beneath a field are not marked because of their parent
RECURSIVE determineResolvableFieldsNoPropagation(_, _, _, _)
determineResolvableFieldsNoPropagation(type, fields, nodeTypeNames, isNestedType) ==
    LET gqlFields == GqlFields(type)
        possibleTCs == {type} \cup Range(nodeTypeNames)
        needsResolve(f) == \E tc \in possibleTCs : getFieldExtension(tc, f)
        innerResolved(f) ==
            IF ~fields[f].leaf /\ f \in DOMAIN gqlFields
            THEN determineResolvableFieldsNoPropagation(
                     gqlFields[f].type, fields[f].sub,
                     toNodeTypeNames(gqlFields[f].type), TRUE)
            ELSE EmptyShape
        marked == {f \in DOMAIN fields : ~IsEmpty(innerResolved(f)) \/ needsResolve(f)}
    IN [f \in marked |->
          IF ~IsEmpty(innerResolved(f)) THEN Nested(innerResolved(f)) ELSE Leaf]

RECURSIVE determineResolvableFields(_, _, _, _)
determineResolvableFields(type, fields, nodeTypeNames, isNestedType) ==
    LET gqlFields == GqlFields(type)
        possibleTCs == {type} \cup Range(nodeTypeNames)
        needsResolve(f) == \E tc \in possibleTCs : getFieldExtension(tc, f)
        innerResolved(f) ==
            IF ~fields[f].leaf /\ f \in DOMAIN gqlFields
            THEN determineResolvableFields(gqlFields[f].type, fields[f].sub,
                                           toNodeTypeNames(gqlFields[f].type), TRUE)
            ELSE EmptyShape
        marked == {f \in DOMAIN fields :
                     \/ ~IsEmpty(innerResolved(f))
                     \/ needsResolve(f)
                     \/ isNestedType}
    IN [f \in marked |->
          IF ~IsEmpty(innerResolved(f)) THEN Nested(innerResolved(f)) ELSE Leaf]

(***************************************************************************)
(* Node data.  A value is null/undefined, a scalar (truthy or not), a      *)
(* plain object or array that sits at this place, or a reference to an     *)
(* object that sits elsewhere (the node itself, another container, another *)
(* node); itype is internal.type of a node, "" for inline objects.         *)
(***************************************************************************)
Undefined ==
    [kind |-> "null", truthy |-> FALSE, sub |-> EmptyShape, itype |-> "", ref |-> <<>>]

Scalar(truthy) ==
    [kind |-> "scalar", truthy |-> truthy, sub |-> EmptyShape, itype |-> "", ref |-> <<>>]

Object(fields) ==
    [kind |-> "object", truthy |-> TRUE, sub |-> fields, itype |-> "", ref |-> <<>>]

NodeValue(type, fields) ==
    [kind |-> "object", truthy |-> TRUE, sub |-> fields, itype |-> type, ref |-> <<>>]

\* the object named by target, held in a field of another object
RefTo(target) ==
    [kind |-> "ref", truthy |-> TRUE, sub |-> EmptyShape, itype |-> "", ref |-> target]

\* node[fieldName]
Get(node, f) == IF f \in DOMAIN node.sub THEN node.sub[f] ELSE Undefined

\* the keys a value contributes when it is stored in the resolved cache
RECURSIVE ToShape(_)
ToShape(value) ==
    IF value.kind = "object"
    THEN Nested([f \in DOMAIN value.sub |-> ToShape(value.sub[f])])
    ELSE Leaf

(***************************************************************************)
(* Recursive Field Resolver.  The result is the shape of the resolved      *)
(* subtree and the set of field paths whose registered resolver was        *)
(* invoked.                                                                *)
(***************************************************************************)
getFields(type, node) ==
    IF ~isAbstractType(type) THEN GqlFields(type) ELSE GqlFields(node.itype)

HasResolver(gqlFields, f) == f \in DOMAIN gqlFields /\ gqlFields[f].resolve

\* what a registered resolver returns: an object for a composite field, a
\* truthy scalar otherwise
ResolverValue(gqlField) ==
    IF isCompositeType(gqlField.type)
    THEN Object([x |-> Scalar(TRUE), y |-> Scalar(TRUE)])
    ELSE Scalar(TRUE)

resolveField(node, gqlFields, f) ==
    IF ~HasResolver(gqlFields, f) THEN Get(node, f) ELSE ResolverValue(gqlFields[f])

\* the second loop of resolveRecursive: query fields outside the resolve
\* shape for which the node carries a truthy value
PlainQueryFields(node, queryFields, fieldsToResolve) ==
    {f \in DOMAIN queryFields : f \notin DOMAIN fieldsToResolve /\ Get(node, f).truthy}

RECURSIVE resolveRecursive(_, _, _, _)
resolveRecursive(node, type, queryFields, fieldsToResolve) ==
    LET gqlFields == getFields(type, node)
        queryField(f) == IF f \in DOMAIN queryFields THEN queryFields[f].sub
                         ELSE EmptyShape
        innerValue(f) == resolveField(node, gqlFields, f)
        recurse(f) == /\ innerValue(f).kind # "null"
                      /\ isCompositeType(gqlFields[f].type)
        inner(f) == resolveRecursive(innerValue(f), gqlFields[f].type, queryField(f),
                                     IF ~fieldsToResolve[f].leaf
                                     THEN fieldsToResolve[f].sub
                                     ELSE queryField(f))
        first == {f \in DOMAIN fieldsToResolve : innerValue(f).kind # "null"}
        second == PlainQueryFields(node, queryFields, fieldsToResolve)
        resolvedFields ==
            [f \in first \cup second |->
                IF f \in first
                THEN IF recurse(f) THEN Nested(inner(f).fields) ELSE Leaf
                ELSE ToShape(innerValue(f))]
    IN [fields |-> [f \in DOMAIN resolvedFields \cap DOMAIN queryFields |->
                       resolvedFields[f]],
        invoked |-> {<<f>> : f \in {g \in DOMAIN fieldsToResolve \cup second :
                                        HasResolver(gqlFields, g)}}
                    \cup UNION {{<<f>> \o p : p \in inner(f).invoked} :
                                   f \in {g \in DOMAIN fieldsToResolve : recurse(g)}}]

(***************************************************************************)
(* The content store and the inputs of the calls.                          *)
(***************************************************************************)
NoParent == ""

StoreNode(type, parent, fields) == [parent |-> parent, value |-> NodeValue(type, fields)]

\* store of the batching specification: two Post nodes and a Page node
BaseStore ==
    [id \in {"1", "2", "3"} |->
        CASE id = "1" -> StoreNode("Post", NoParent,
                            [a |-> Scalar(TRUE), t |-> Scalar(TRUE),
                             c |-> Object([x |-> Scalar(TRUE), y |-> Scalar(FALSE)])])
          [] id = "2" -> StoreNode("Post", NoParent, [t |-> Scalar(FALSE)])
          [] id = "3" -> StoreNode("Page", "1", [a |-> Scalar(TRUE), t |-> Scalar(TRUE)])]

StoreOrder == <<"1", "2", "3">>

\* getNodesByType(typeName), in store order
getNodesByType(store, typeName) ==
    SelectSeq(StoreOrder, LAMBDA id : id \in DOMAIN store /\ store[id].value.itype = typeName)

RECURSIVE Concat(_)
Concat(seqs) == IF seqs = <<>> THEN <<>> ELSE Head(seqs) \o Concat(Tail(seqs))

\* the nodes the bulk visit passes through the visitor
NodesOfTypes(store, nodeTypeNames) ==
    Concat([i \in DOMAIN nodeTypeNames |-> getNodesByType(store, nodeTypeNames[i])])

ResolverPaths == {<<"a">>, <<"b">>, <<"d">>, <<"d", "x">>, <<"c", "x">>}

Eq == FObject(<< <<"eq", FScalar>> >>)

Query(filter, sort, distinct) ==
    [filter |-> filter, sort |-> sort, group |-> NoPaths, distinct |-> distinct]

QueryT == Query(<< <<"t", Eq>> >>, <<>>, NoPaths)
QueryA == Query(<< <<"a", Eq>> >>, <<>>, NoPaths)
QueryAB == Query(<< <<"a", Eq>> >>, << <<"b">> >>, NoPaths)
QueryDX == Query(<< <<"d", FObject(<< <<"x", Eq>> >>)>> >>, <<>>, NoPaths)
QueryD == Query(<<>>, <<>>, OnePath(<<"d">>))

\* the types runQuery is called with and the queries valid for each
QueryTypes == {"Post", "Page", "Content", "Any"}

QueriesOf(type) ==
    IF type = "Post" THEN {QueryT, QueryA, QueryAB, QueryDX, QueryD}
    ELSE {QueryT, QueryA}

\* the type names that key the batching state
BatchTypes == QueryTypes

(***************************************************************************)
(* Page Dependency Tracker.  A result is null, a single node or a list of  *)
(* node ids (NullEntry for a null element); absent strings are "".         *)
(***************************************************************************)
NullEntry == ""

NullResult == [kind |-> "null", ids |-> <<>>]

SingleResult(id) == [kind |-> "node", ids |-> <<id>>]

ListResult(ids) == [kind |-> "list", ids |-> ids]

NodeEdge(path, nodeId) == [path |-> path, kind |-> "nodeId", target |-> nodeId]

ConnectionEdge(path, typeName) == [path |-> path, kind |-> "connection", target |-> typeName]

NoDependencies == [path |-> "", connectionType |-> ""]

(***************************************************************************)
(* ContextualNodeModel.  A call is made on the LocalNodeModel itself       *)
(* (NoView) or on a view with a context path; the caller supplies page     *)
(* dependencies (given) or leaves the argument out.                        *)
(***************************************************************************)
NoView == [wrapped |-> FALSE, path |-> ""]

View(path) == [wrapped |-> TRUE, path |-> path]

Context(view, given, supplied) == [view |-> view, given |-> given, supplied |-> supplied]

\* mutant: the context of the view wins over the caller's
getFullDependenciesViewWins(context) ==
    [path |-> IF context.view.path # "" THEN context.view.path
              ELSE IF context.given THEN context.supplied.path ELSE "",
     connectionType |-> IF context.given THEN context.supplied.connectionType ELSE ""]

\* _getFullDependencies: {path: this.context.path, ...(pageDependencies || {})}
getFullDependencies(context) ==
    [path |-> IF context.given /\ context.supplied.path # ""
              THEN context.supplied.path ELSE context.view.path,
     connectionType |-> IF context.given THEN context.supplied.connectionType ELSE ""]

\* the pageDependencies the method of the LocalNodeModel works with: what
\* the view passes on, or the caller's argument with its default {}
LocalDependencies(context) ==
    IF context.view.wrapped THEN getFullDependencies(context)
    ELSE IF context.given THEN context.supplied
    ELSE NoDependencies

\* calls made on the LocalNodeModel itself with the given dependencies
DirectContexts(Dependencies) == {Context(NoView, TRUE, d) : d \in Dependencies}

\* mutant: the connection marker is recorded as given, not per node type
createPageDependencyRaw(path, nodeId, connection) ==
    IF connection # "" THEN <<ConnectionEdge(path, connection)>>
    ELSE <<NodeEdge(path, nodeId)>>

\* the edges handed to the createPageDependency action creator
createPageDependency(path, nodeId, connection) ==
    IF connection # ""
    THEN LET nodeTypeNames == toNodeTypeNames(connection)
         IN [i \in DOMAIN nodeTypeNames |-> ConnectionEdge(path, nodeTypeNames[i])]
    ELSE <<NodeEdge(path, nodeId)>>

\* mutant: only the first node of a list is tracked
trackPageDependenciesFirst(result, pageDependencies) ==
    LET nodes_ == SelectSeq(result.ids, LAMBDA id : id # NullEntry)
    IN [result |-> result,
        edges |-> IF pageDependencies.path = "" THEN <<>>
                  ELSE IF pageDependencies.connectionType # ""
                  THEN createPageDependency(pageDependencies.path, "",
                                            pageDependencies.connectionType)
                  ELSE IF nodes_ = <<>> THEN <<>>
                  ELSE createPageDependency(pageDependencies.path, nodes_[1], "")]

\* mutant: without a path the call returns early, without the result
trackPageDependenciesEarlyReturn(result, pageDependencies) ==
    LET nodes_ == SelectSeq(result.ids, LAMBDA id : id # NullEntry)
    IN IF pageDependencies.path = "" THEN [result |-> NullResult, edges |-> <<>>]
       ELSE [result |-> result,
             edges |-> IF pageDependencies.connectionType # ""
                       THEN createPageDependency(pageDependencies.path, "",
                                                 pageDependencies.connectionType)
                       ELSE Concat([i \in DOMAIN nodes_ |->
                                       createPageDependency(pageDependencies.path,
                                                            nodes_[i], "")])]

trackPageDependencies(result, pageDependencies) ==
    LET path == pageDependencies.path
        connectionType == pageDependencies.connectionType
        nodes_ == SelectSeq(result.ids, LAMBDA id : id # NullEntry)
    IN [result |-> result,
        edges |-> IF path # ""
                  THEN IF connectionType # ""
                       THEN createPageDependency(path, "", connectionType)
                       ELSE Concat([i \in DOMAIN nodes_ |->
                                       createPageDependency(path, nodes_[i], "")])
                  ELSE <<>>]

(***************************************************************************)
(* Root-Node Inline-Object Tracker.  An object is named by the id of its   *)
(* node followed by the keys that lead to it: <<id>> is the node itself.   *)
(***************************************************************************)
RECURSIVE InlineObjects(_, _)
InlineObjects(data, ref) ==
    UNION {IF data.sub[key].kind = "object"
           THEN {Append(ref, key)} \cup InlineObjects(data.sub[key], Append(ref, key))
           ELSE {} : key \in DOMAIN data.sub}

RECURSIVE ValueAt(_, _)
ValueAt(value, keys) ==
    IF keys = <<>> THEN value ELSE ValueAt(value.sub[Head(keys)], Tail(keys))

\* the object an object reference names
ObjectAt(store, ref) == ValueAt(store[ref[1]].value, Tail(ref))

\* data[key] when it is a plain object or an array, <<>> otherwise
ContainerAt(store, data, key) ==
    LET o == ObjectAt(store, data).sub[key]
    IN IF o.kind = "ref" THEN o.ref
       ELSE IF o.kind = "object" THEN Append(data, key)
       ELSE <<>>

\* one scan: path is the visited set, walked the containers entered, in
\* order, set the containers handed to rootNodeMap.set, calls the number of
\* calls made on a container
NoScan == [path |-> {}, walked |-> <<>>, set |-> {}, calls |-> 0]

\* mutant: the node itself is entered in the map
IsTrackedAlways(isNode) == TRUE

\* line 827: if (!isNode)
IsTracked(isNode) == ~isNode

RECURSIVE walkInlineObject(_, _, _, _)
RECURSIVE walkEach(_, _, _, _, _)
\* _.each(data, (o, key) => ...) of line 820 over the keys not yet visited
walkEach(store, scan, data, keys, isNode) ==
    IF keys = {} THEN scan
    ELSE LET key == CHOOSE k \in keys : TRUE
             o == ContainerAt(store, data, key)
             next == IF (isNode /\ key = "internal") \/ o = <<>> THEN scan
                     ELSE walkInlineObject(store, scan, o, FALSE)
         IN walkEach(store, next, data, keys \ {key}, isNode)

\* addRootNodeToInlineObject(rootNodeMap, data, nodeId, isNode, path) called
\* on a container
walkInlineObject(store, scan, data, isNode) ==
    LET called == [scan EXCEPT !.calls = @ + 1]
    IN IF data \in scan.path THEN called
       ELSE LET entered == [called EXCEPT !.path = @ \cup {data},
                                          !.walked = Append(@, data)]
                after == walkEach(store, entered, data,
                                  DOMAIN ObjectAt(store, data).sub, isNode)
            IN IF IsTracked(isNode) THEN [after EXCEPT !.set = @ \cup {data}]
               ELSE after

\* the scan trackInlineObjectsInRootNode starts on a node
ScanOf(store, nodeId) == walkInlineObject(store, NoScan, <<nodeId>>, TRUE)

\* the map after the walk over a node: every container the scan handed to
\* rootNodeMap.set maps to nodeId
addRootNodeToInlineObject(map, store, nodeId) ==
    LET inline == ScanOf(store, nodeId).set
    IN [ref \in DOMAIN map \cup inline |-> IF ref \in inline THEN nodeId ELSE map[ref]]

\* mutant: the tracked-set guard is dropped
trackInlineObjectsInRootNodeUnguarded(tracker, store, nodeId) ==
    [map |-> addRootNodeToInlineObject(tracker.map, store, nodeId),
     tracked |-> tracker.tracked \cup {nodeId},
     walks |-> [tracker.walks EXCEPT ![nodeId] = @ + 1]]

\* walks counts the calls of addRootNodeToInlineObject per root node
trackInlineObjectsInRootNode(tracker, store, nodeId) ==
    IF nodeId \notin tracker.tracked
    THEN [map |-> addRootNodeToInlineObject(tracker.map, store, nodeId),
          tracked |-> tracker.tracked \cup {nodeId},
          walks |-> [tracker.walks EXCEPT ![nodeId] = @ + 1]]
    ELSE tracker

\* result.forEach(node => this.trackInlineObjectsInRootNode(node))
RECURSIVE TrackEach(_, _, _)
TrackEach(tracker, store, ids) ==
    IF ids = <<>> THEN tracker
    ELSE TrackEach(trackInlineObjectsInRootNode(tracker, store, Head(ids)), store,
                   Tail(ids))

(***************************************************************************)
(* The webpack rules js and dependencies (webpack-utils).  A module path   *)
(* is the sequence of its pieces: the separator "/", the names between     *)
(* separators and the extension; a string is part of a path when its       *)
(* pieces are consecutive pieces of the path.                              *)
(***************************************************************************)
\* modulePath.includes(part)
Includes(modulePath, part) ==
    \E i \in 0..(Len(modulePath) - Len(part)) :
        SubSeq(modulePath, i + 1, i + Len(part)) = part

\* /\.(ext1|ext2|...)$/.test(modulePath)
EndsWith(modulePath, extensions) ==
    modulePath # <<>> /\ modulePath[Len(modulePath)] \in extensions

\* vendorRegex = /(node_modules|bower_components)/
vendorRegex(modulePath) ==
    Includes(modulePath, <<"node_modules">>) \/ Includes(modulePath, <<"bower_components">>)

\* the vendors of VENDORS_TO_NOT_POLYFILL the module paths are built from
VENDORS_TO_NOT_POLYFILL == {<<"@babel", "/", "runtime">>, <<"lodash">>, <<"react">>}

\* [\\/]node_modules[\\/](vendor|...)[\\/]
doNotPolyfillRegex(modulePath) ==
    \E vendor \in VENDORS_TO_NOT_POLYFILL :
        Includes(modulePath, <<"/", "node_modules", "/">> \o vendor \o <<"/">>)

\* modulesThatUseGatsby.some(module => modulePath.includes(module.path))
usesGatsby(modulesThatUseGatsby, modulePath) ==
    \E i \in DOMAIN modulesThatUseGatsby :
        Includes(modulePath, modulesThatUseGatsby[i].path)

\* rules.js: test and include
jsTest(modulePath) == EndsWith(modulePath, {".js", ".mjs", ".jsx"})

jsInclude(modulesThatUseGatsby, modulePath) ==
    IF ~vendorRegex(modulePath) THEN TRUE
    ELSE usesGatsby(modulesThatUseGatsby, modulePath)

\* rules.dependencies: test and exclude
dependenciesTest(modulePath) == EndsWith(modulePath, {".js", ".mjs"})

\* mutant: the dependencies rule does not look at modulesThatUseGatsby
dependenciesExcludeVendorsOnly(modulesThatUseGatsby, modulePath) ==
    IF ~vendorRegex(modulePath) THEN TRUE
    ELSE doNotPolyfillRegex(modulePath)

dependenciesExclude(modulesThatUseGatsby, modulePath) ==
    IF ~vendorRegex(modulePath) THEN TRUE
    ELSE IF usesGatsby(modulesThatUseGatsby, modulePath) THEN TRUE
    ELSE doNotPolyfillRegex(modulePath)

\* webpack applies a rule to a module when its test and its include match
\* and its exclude does not
NoMatch ==
    [op |-> "none", modulesThatUseGatsby |-> <<>>, modulePath |-> <<>>,
     jsIncluded |-> FALSE, jsApplies |-> FALSE,
     dependenciesExcluded |-> FALSE, dependenciesApplies |-> FALSE]

(***************************************************************************)
(* State of a LocalNodeModel instance and of the calls made on it.         *)
(***************************************************************************)
VARIABLES
    nodes,          \* the content store: id -> parent and value
    resolved,       \* node.__gatsby_resolved of every node, as a shape
    invocations,    \* resolver invocation counter: node id -> field path -> count
    queues,         \* _prepareNodesQueues
    promises,       \* _prepareNodesPromises: 0 (none) or the id of the promise
    preparedCache,  \* _preparedNodesCache
    promiseState,   \* promise id -> "none", "pending", "fulfilled", "rejected"
    jobs,           \* promise id -> the nextTick callback that settles it
    tickQueue,      \* process.nextTick queue of scheduled jobs
    calls,          \* the runQuery calls
    ret,            \* the last call that returned or failed
    rootNodeMap,    \* _rootNodeMap: inline object -> id of its root node
    trackedRootNodes, \* _trackedRootNodes
    inlineWalks,    \* node id -> number of walks of addRootNodeToInlineObject over it
    plan,           \* the last run of the query field planner and the determiner
    matched,        \* the last module path matched against the webpack rules
    walk            \* the running findRootNodeAncestor call

vars == <<nodes, resolved, invocations, queues, promises, preparedCache,
          promiseState, jobs, tickQueue, calls, ret, rootNodeMap, trackedRootNodes,
          inlineWalks, plan, walk, matched>>

trackerVars == <<rootNodeMap, trackedRootNodes, inlineWalks>>

batchVars == <<resolved, invocations, queues, promises, preparedCache,
               promiseState, jobs, tickQueue, calls>>

CallIds == 1..MaxCalls

NoJob ==
    [state |-> "none", type |-> "", nodeTypeNames |-> <<>>, queryFields |-> EmptyShape,
     fieldsToResolve |-> EmptyShape, actualFieldsToResolve |-> EmptyShape, prepared |-> EmptyShape,
     remaining |-> <<>>, saves |-> 0, drained |-> 0, drainedCalls |-> {}]

NoCall == [pc |-> "idle", type |-> "", promise |-> 0]

\* context: how the call was made; pageDependencies: what
\* trackPageDependencies of the LocalNodeModel received
NoReturn ==
    [op |-> "none", call |-> 0, type |-> "", firstOnly |-> FALSE,
     context |-> Context(NoView, FALSE, NoDependencies),
     ids |-> [isArray |-> FALSE, ids |-> <<>>],
     pageDependencies |-> NoDependencies, queryResult |-> NullResult,
     tracked |-> NullResult, result |-> NullResult, edges |-> <<>>,
     outcome |-> "none"]

NoQuery == [filter |-> <<>>, sort |-> <<>>, group |-> NoPaths, distinct |-> NoPaths]

NoPlan ==
    [op |-> "none", type |-> "", query |-> NoQuery, shapes |-> <<>>,
     fields |-> EmptyShape, fieldsToResolve |-> EmptyShape, outcome |-> "none"]

NoWalk ==
    [pc |-> "idle", start |-> <<>>, predicate |-> "", iterations |-> 0, node |-> <<>>,
     hops |-> 0, result |-> <<>>, errors |-> 0]

InitEngine ==
    /\ resolved = [id \in DOMAIN nodes |-> EmptyShape]
    /\ invocations = [id \in DOMAIN nodes |-> [p \in ResolverPaths |-> 0]]
    /\ queues = [t \in BatchTypes |-> <<>>]
    /\ promises = [t \in BatchTypes |-> 0]
    /\ preparedCache = [t \in BatchTypes |-> EmptyShape]
    /\ promiseState = [j \in CallIds |-> "none"]
    /\ jobs = [j \in CallIds |-> NoJob]
    /\ tickQueue = <<>>
    /\ calls = [c \in CallIds |-> NoCall]
    /\ ret = NoReturn
    /\ rootNodeMap = EmptyShape
    /\ trackedRootNodes = {}
    /\ inlineWalks = [id \in DOMAIN nodes |-> 0]
    /\ plan = NoPlan
    /\ matched = NoMatch
    /\ walk = NoWalk

Init ==
    /\ nodes = BaseStore
    /\ InitEngine

(***************************************************************************)
(* runQuery, up to its await of prepareNodes.                              *)
(***************************************************************************)
\* mutant: prepareNodes creates a promise for every request
NeedsPromiseAlways(typeName) == TRUE

\* prepareNodes creates a promise only when the type has none
NeedsPromise(typeName) == promises[typeName] = 0

prepareNodes(c, type, queryFields, fieldsToResolve, nodeTypeNames) ==
    /\ queues' = [queues EXCEPT ![type] =
                     Append(@, [queryFields |-> queryFields,
                                fieldsToResolve |-> fieldsToResolve, call |-> c])]
    /\ IF NeedsPromise(type)
       THEN /\ promises' = [promises EXCEPT ![type] = c]
            /\ promiseState' = [promiseState EXCEPT ![c] = "pending"]
            /\ jobs' = [jobs EXCEPT ![c] =
                           [NoJob EXCEPT !.state = "scheduled", !.type = type,
                                         !.nodeTypeNames = nodeTypeNames]]
            /\ tickQueue' = Append(tickQueue, c)
            /\ calls' = [calls EXCEPT ![c] =
                            [pc |-> "awaitPrepare", type |-> type, promise |-> c]]
       ELSE /\ calls' = [calls EXCEPT ![c] =
                            [pc |-> "awaitPrepare", type |-> type,
                             promise |-> promises[type]]]
            /\ UNCHANGED <<promises, promiseState, jobs, tickQueue>>

RunQuery(c, type, query) ==
    /\ calls[c].pc = "idle"
    /\ \A earlier \in CallIds : earlier < c => calls[earlier].pc # "idle"
    /\ IF isUnionType(type)
       THEN /\ calls' = [calls EXCEPT ![c] = [pc |-> "failed", type |-> type, promise |-> 0]]
            /\ ret' = [NoReturn EXCEPT !.op = "runQuery", !.call = c, !.type = type,
                                       !.outcome = "failed"]
            /\ UNCHANGED <<queues, promises, promiseState, jobs, tickQueue>>
       ELSE LET nodeTypeNames == toNodeTypeNames(type)
                fields == getQueryFields(query)
                fieldsToResolve ==
                    determineResolvableFields(type, fields, nodeTypeNames, FALSE)
            IN /\ prepareNodes(c, type, fields, fieldsToResolve, nodeTypeNames)
               /\ UNCHANGED ret
    /\ UNCHANGED <<nodes, resolved, invocations, preparedCache, trackerVars, walk, plan, matched>>

(***************************************************************************)
(* _doResolvePrepareNodesQueue, run from the nextTick callback, and the    *)
(* bulk visit (saveResolvedNodes) it awaits: one step per visited node.    *)
(***************************************************************************)
MergedQueue(queue) ==
    [queryFields |-> MergeAll(EmptyShape, [i \in DOMAIN queue |-> queue[i].queryFields]),
     fieldsToResolve |->
         MergeAll(EmptyShape, [i \in DOMAIN queue |-> queue[i].fieldsToResolve])]

\* mutant: the promise of the type is kept while the job runs
PromiseKeptAfterStart(typeName) == promises[typeName]

\* line 351: this._prepareNodesPromises[typeName] = null
PromiseAfterStart(typeName) == 0

\* line 350: this._prepareNodesQueues[typeName] = []
QueueAfterStart(typeName) == <<>>

\* mutant: a job empties the queue of every type
QueuesAllDrained(typeName) == [t \in BatchTypes |-> <<>>]

\* line 350: the queue is looked up and replaced under the type's name
QueuesAfterStart(typeName) == [queues EXCEPT ![typeName] = QueueAfterStart(typeName)]

\* mutant: the bulk visit is made whatever the difference
NeedsBulkVisitAlways(actualFieldsToResolve) == TRUE

\* line 374: if (!_.isEmpty(actualFieldsToResolve))
NeedsBulkVisit(actualFieldsToResolve) == ~IsEmpty(actualFieldsToResolve)

JobStart(j) ==
    /\ tickQueue # <<>>
    /\ j = Head(tickQueue)
    /\ LET type == jobs[j].type
           queue == queues[type]
           merged == MergedQueue(queue)
           prepared == preparedCache[type]
           actualFieldsToResolve == deepObjectDifference(merged.fieldsToResolve, prepared)
           drainedCalls == {queue[i].call : i \in DOMAIN queue}
       IN /\ queues' = QueuesAfterStart(type)
          /\ promises' = [promises EXCEPT ![type] = PromiseAfterStart(type)]
          /\ tickQueue' = Tail(tickQueue)
          /\ IF NeedsBulkVisit(actualFieldsToResolve)
             THEN /\ jobs' = [jobs EXCEPT ![j] =
                                 [@ EXCEPT !.state = "running",
                                           !.queryFields = merged.queryFields,
                                           !.fieldsToResolve = merged.fieldsToResolve,
                                           !.actualFieldsToResolve = actualFieldsToResolve,
                                           !.prepared = prepared,
                                           !.remaining = NodesOfTypes(nodes, jobs[j].nodeTypeNames),
                                           !.saves = @ + 1,
                                           !.drained = Len(queue),
                                           !.drainedCalls = drainedCalls]]
                  /\ UNCHANGED promiseState
             ELSE /\ jobs' = [jobs EXCEPT ![j] =
                                 [@ EXCEPT !.state = "done",
                                           !.queryFields = merged.queryFields,
                                           !.fieldsToResolve = merged.fieldsToResolve,
                                           !.drained = Len(queue),
                                           !.drainedCalls = drainedCalls]]
                  /\ promiseState' = [promiseState EXCEPT ![j] = "fulfilled"]
    /\ UNCHANGED <<nodes, resolved, invocations, preparedCache, calls, ret, trackerVars,
                   walk, plan, matched>>

Tracker == [map |-> rootNodeMap, tracked |-> trackedRootNodes, walks |-> inlineWalks]

SetTracker(tracker) ==
    /\ rootNodeMap' = tracker.map
    /\ trackedRootNodes' = tracker.tracked
    /\ inlineWalks' = tracker.walks

\* the visitor passed to saveResolvedNodes, applied to the next node
Visit(j) ==
    resolveRecursive(nodes[Head(jobs[j].remaining)].value, jobs[j].type,
                     jobs[j].queryFields, jobs[j].actualFieldsToResolve)

Count(id, invoked) ==
    [invocations EXCEPT ![id] = [p \in ResolverPaths |->
                                    IF p \in invoked THEN @[p] + 1 ELSE @[p]]]

JobVisit(j) ==
    /\ jobs[j].state = "running"
    /\ jobs[j].remaining # <<>>
    /\ LET id == Head(jobs[j].remaining)
           resolvedFields == Visit(j)
           tracker == trackInlineObjectsInRootNode(Tracker, nodes, id)
       IN /\ SetTracker(tracker)
          /\ invocations' = Count(id, resolvedFields.invoked)
          /\ resolved' = [resolved EXCEPT ![id] = Merge(@, resolvedFields.fields)]
          /\ jobs' = [jobs EXCEPT ![j].remaining = Tail(@)]
    /\ UNCHANGED <<nodes, queues, promises, preparedCache, promiseState, tickQueue,
                   calls, ret, walk, plan, matched>>

\* mutant: the fields of a failed batch are entered in the prepared cache
PreparedAfterFailureMerged(j) ==
    [preparedCache EXCEPT ![jobs[j].type] = Merge(@, jobs[j].actualFieldsToResolve)]

\* lines 391-398 are not reached when saveResolvedNodes rejects
PreparedAfterFailure(j) == preparedCache

\* a resolver invoked by the visitor raises: the exception leaves
\* saveResolvedNodes, _doResolvePrepareNodesQueue and the nextTick callback,
\* whose resolve() is not reached
JobVisitThrows(j) ==
    /\ jobs[j].state = "running"
    /\ jobs[j].remaining # <<>>
    /\ LET id == Head(jobs[j].remaining)
           resolvedFields == Visit(j)
           tracker == trackInlineObjectsInRootNode(Tracker, nodes, id)
       IN /\ resolvedFields.invoked # {}
          /\ SetTracker(tracker)
          /\ invocations' = Count(id, resolvedFields.invoked)
          /\ jobs' = [jobs EXCEPT ![j].state = "failed"]
    /\ preparedCache' = PreparedAfterFailure(j)
    /\ UNCHANGED <<nodes, resolved, queues, promises, promiseState, tickQueue, calls,
                   ret, walk, plan, matched>>

JobFinish(j) ==
    /\ jobs[j].state = "running"
    /\ jobs[j].remaining = <<>>
    /\ preparedCache' =
           [preparedCache EXCEPT ![jobs[j].type] =
               Merge(Merge(EmptyShape, @), jobs[j].actualFieldsToResolve)]
    /\ jobs' = [jobs EXCEPT ![j].state = "done"]
    /\ promiseState' = [promiseState EXCEPT ![j] = "fulfilled"]
    /\ UNCHANGED <<nodes, resolved, invocations, queues, promises, tickQueue, calls,
                   ret, trackerVars, walk, plan, matched>>

(***************************************************************************)
(* runQuery after the await: the filter/sort engine, the reduction to the  *)
(* first match and the dependency tracking.  firstOnly and the page        *)
(* dependencies are arguments of the call that are first read here.        *)
(***************************************************************************)
RECURSIVE InjectiveSeqs(_, _)
InjectiveSeqs(S, n) ==
    IF n = 0 THEN {<<>>}
    ELSE LET shorter == InjectiveSeqs(S, n - 1)
         IN shorter \cup {Append(q, x) : q \in {r \in shorter : Len(r) = n - 1},
                                         x \in S}

\* what runFastFiltersAndSort may return: null or a list of at most maxLen
\* distinct nodes of the queried node types
QueryResults(nodeTypeNames, maxLen) ==
    {NullResult} \cup
    {ListResult(q) : q \in InjectiveSeqs(Range(NodesOfTypes(nodes, nodeTypeNames)), maxLen)}

\* lines 305-315: the reduction of the query result
ReduceResult(queryResult, firstOnly) ==
    IF firstOnly
    THEN IF queryResult.kind = "list" /\ Len(queryResult.ids) > 0
         THEN SingleResult(queryResult.ids[1])
         ELSE NullResult
    ELSE queryResult

\* mutant: runQuery goes on without awaiting the promise
SettledOrPending(promise) == promiseState[promise] \in {"pending", "fulfilled", "rejected"}

\* line 264: `await this.prepareNodes(...)` returns once the promise is settled
Settled(promise) == promiseState[promise] \in {"fulfilled", "rejected"}

RunQueryResume(c, Contexts, maxLen) ==
    /\ calls[c].pc = "awaitPrepare"
    /\ Settled(calls[c].promise)
    /\ IF promiseState[calls[c].promise] = "rejected"
       THEN /\ calls' = [calls EXCEPT ![c].pc = "failed"]
            /\ ret' = [NoReturn EXCEPT !.op = "runQuery", !.call = c,
                                       !.type = calls[c].type, !.outcome = "failed"]
            /\ UNCHANGED trackerVars
       ELSE \E firstOnly \in BOOLEAN, context \in Contexts,
               queryResult \in QueryResults(toNodeTypeNames(calls[c].type), maxLen) :
                LET result == ReduceResult(queryResult, firstOnly)
                    tracker == TrackEach(Tracker, nodes, result.ids)
                    pageDependencies == LocalDependencies(context)
                    tracked == trackPageDependencies(result, pageDependencies)
                IN /\ SetTracker(tracker)
                   /\ calls' = [calls EXCEPT ![c].pc = "done"]
                   /\ ret' = [NoReturn EXCEPT
                                 !.op = "runQuery", !.call = c, !.type = calls[c].type,
                                 !.firstOnly = firstOnly, !.context = context,
                                 !.pageDependencies = pageDependencies,
                                 !.queryResult = queryResult, !.tracked = result,
                                 !.result = tracked.result, !.edges = tracked.edges,
                                 !.outcome = "returned"]
    /\ UNCHANGED <<nodes, resolved, invocations, queues, promises, preparedCache,
                   promiseState, jobs, tickQueue, walk, plan, matched>>

(***************************************************************************)
(* The batching specification: MaxCalls runQuery calls in any interleaving *)
(* with the jobs; the calls carry no page dependencies and the engine      *)
(* returns at most one node.                                               *)
(***************************************************************************)
Next ==
    \/ \E c \in CallIds, type \in QueryTypes : \E query \in QueriesOf(type) :
          RunQuery(c, type, query)
    \/ \E j \in CallIds : JobStart(j)
    \/ \E j \in CallIds : JobVisit(j)
    \/ \E j \in CallIds : JobVisitThrows(j)
    \/ \E j \in CallIds : JobFinish(j)
    \/ \E c \in CallIds : RunQueryResume(c, DirectContexts({NoDependencies}), 1)

Spec == Init /\ [][Next]_vars

\* The batching specification with the scheduling of the runtime: a
\* callback handed to process.nextTick is run, and a call that awaits a
\* settled promise is resumed.  The calls query a field without resolver
\* (t) or a field with one (a) on the type Post.
NextLive ==
    \/ \E c \in CallIds, query \in {QueryT, QueryA} : RunQuery(c, "Post", query)
    \/ \E j \in CallIds : JobStart(j)
    \/ \E j \in CallIds : JobVisit(j)
    \/ \E j \in CallIds : JobVisitThrows(j)
    \/ \E j \in CallIds : JobFinish(j)
    \/ \E c \in CallIds : RunQueryResume(c, DirectContexts({NoDependencies}), 1)

SpecLive ==
    /\ Init /\ [][NextLive]_vars
    /\ WF_vars(\E j \in CallIds : JobStart(j))
    /\ \A c \in CallIds : WF_vars(RunQueryResume(c, DirectContexts({NoDependencies}), 1))

(***************************************************************************)
(* The growing-store specification: the batching of queries on field a of  *)
(* type Post while the store creates a node of that type between two       *)
(* batches.                                                                *)
(***************************************************************************)
GrowingStore == [id \in {"1", "3"} |-> BaseStore[id]]

\* the store creates a node while no bulk visit is under way
AddNode(id) ==
    /\ id \notin DOMAIN nodes
    /\ \A j \in CallIds : jobs[j].state # "running"
    /\ nodes' = [i \in DOMAIN nodes \cup {id} |-> IF i = id THEN BaseStore[id] ELSE nodes[i]]
    /\ resolved' = [i \in DOMAIN nodes' |-> IF i = id THEN EmptyShape ELSE resolved[i]]
    /\ invocations' = [i \in DOMAIN nodes' |->
                          IF i = id THEN [p \in ResolverPaths |-> 0] ELSE invocations[i]]
    /\ inlineWalks' = [i \in DOMAIN nodes' |-> IF i = id THEN 0 ELSE inlineWalks[i]]
    /\ UNCHANGED <<queues, promises, preparedCache, promiseState, jobs, tickQueue,
                   calls, ret, rootNodeMap, trackedRootNodes, walk, plan, matched>>

InitGrowing ==
    /\ nodes = GrowingStore
    /\ InitEngine

NextGrowing ==
    \/ \E c \in CallIds, query \in {QueryT, QueryA} : RunQuery(c, "Post", query)
    \/ \E j \in CallIds : JobStart(j)
    \/ \E j \in CallIds : JobVisit(j)
    \/ \E j \in CallIds : JobVisitThrows(j)
    \/ \E j \in CallIds : JobFinish(j)
    \/ \E c \in CallIds : RunQueryResume(c, DirectContexts({NoDependencies}), 1)
    \/ AddNode("2")

SpecGrowing == InitGrowing /\ [][NextGrowing]_vars

(***************************************************************************)
(* The dependency-tracking specification: one runQuery call with every     *)
(* kind of page dependencies and result, and direct calls of               *)
(* trackPageDependencies.                                                  *)
(***************************************************************************)
MarkerTypes == {"", "Post", "Content", "Meta", "Ghost"}

AllDependencies ==
    {[path |-> path, connectionType |-> connectionType] :
        path \in {"", "/blog"}, connectionType \in MarkerTypes}

RECURSIVE SeqsUpTo(_, _)
SeqsUpTo(S, n) ==
    IF n = 0 THEN {<<>>}
    ELSE LET shorter == SeqsUpTo(S, n - 1)
         IN shorter \cup {Append(q, x) : q \in {r \in shorter : Len(r) = n - 1}, x \in S}

TrackResults ==
    {NullResult} \cup {SingleResult(id) : id \in DOMAIN nodes}
    \cup {ListResult(q) : q \in SeqsUpTo(DOMAIN nodes \cup {NullEntry}, MaxResult)}

\* a direct call of trackPageDependencies.  It reads nothing but its
\* arguments, so the direct calls are explored before the runQuery call
TrackPageDependencies(result, context) ==
    /\ \A c \in CallIds : calls[c].pc = "idle"
    /\ LET pageDependencies == LocalDependencies(context)
           tracked == trackPageDependencies(result, pageDependencies)
       IN ret' = [NoReturn EXCEPT !.op = "track", !.context = context,
                                  !.pageDependencies = pageDependencies,
                                  !.tracked = result, !.result = tracked.result,
                                  !.edges = tracked.edges, !.outcome = "returned"]
    /\ UNCHANGED <<nodes, trackerVars, walk, plan, matched>>
    /\ UNCHANGED batchVars

NextDeps ==
    \/ \E type \in QueryTypes : \E query \in QueriesOf(type) : RunQuery(1, type, query)
    \/ \E j \in CallIds : JobStart(j)
    \/ \E j \in CallIds : JobVisit(j)
    \/ \E j \in CallIds : JobVisitThrows(j)
    \/ \E j \in CallIds : JobFinish(j)
    \/ RunQueryResume(1, DirectContexts(AllDependencies), MaxResult)
    \/ \E result \in TrackResults, context \in DirectContexts(AllDependencies) :
          TrackPageDependencies(result, context)

SpecDeps == Init /\ [][NextDeps]_vars

(***************************************************************************)
(* findRootNodeAncestor, one loop iteration per step.                      *)
(***************************************************************************)
MaxHops == 100

\* null, as an object reference
NotFound == <<>>

\* store of the ancestor specification: node 4 is its own parent, node 5 is
\* a child of node 4
AncestorStore ==
    [id \in {"1", "2", "3", "4", "5"} |->
        CASE id \in {"1", "2", "3"} -> BaseStore[id]
          [] id = "4" -> StoreNode("Page", "4", [t |-> Scalar(TRUE)])
          [] id = "5" -> StoreNode("Page", "4", [t |-> Scalar(TRUE)])]

IsNode(obj) == Len(obj) = 1 /\ obj[1] \in DOMAIN nodes

\* getNodeById: the stored node, or NotFound
getNodeById(id) == IF id \in DOMAIN nodes THEN <<id>> ELSE NotFound

\* obj.parent of a node; an inline object has no parent field
ParentOf(obj) == IF IsNode(obj) THEN nodes[obj[1]].parent ELSE NoParent

\* this._rootNodeMap.get(obj)
TrackedIdOf(obj) == IF obj \in DOMAIN rootNodeMap THEN rootNodeMap[obj] ELSE NoParent

Predicates == {"", "isPost"}

Satisfies(predicate, obj) ==
    predicate = "isPost" /\ IsNode(obj) /\ nodes[obj[1]].value.itype = "Post"

\* mutant: the parent found through the root-node map is preferred
NextNodeTrackedFirst(parent, trackedParent) ==
    IF trackedParent # NotFound THEN trackedParent ELSE parent

\* line 453: node = parent || trackedParent
NextNode(parent, trackedParent) == IF parent # NotFound THEN parent ELSE trackedParent

\* mutant: the loop condition is iterations++ <= 100
WithinBoundInclusive(iterations) == iterations <= MaxHops

\* the loop condition iterations++ < 100
WithinBound(iterations) == iterations < MaxHops

FindStart(obj, predicate) ==
    /\ walk.pc = "idle"
    /\ walk' = [NoWalk EXCEPT !.pc = "loop", !.start = obj, !.predicate = predicate,
                              !.node = obj]
    /\ UNCHANGED <<nodes, ret, trackerVars, plan, matched>>
    /\ UNCHANGED batchVars

FindStep ==
    /\ walk.pc = "loop"
    /\ WithinBound(walk.iterations)
    /\ LET node == walk.node
           predicate == walk.predicate
           parent == getNodeById(ParentOf(node))
           trackedParent == getNodeById(TrackedIdOf(node))
           stepped == [walk EXCEPT !.iterations = @ + 1]
       IN IF predicate # "" /\ Satisfies(predicate, node)
          THEN walk' = [stepped EXCEPT !.pc = "done", !.result = node]
          ELSE IF parent = NotFound /\ trackedParent = NotFound
          THEN walk' = [stepped EXCEPT
                           !.pc = "done",
                           !.result = IF predicate = "" \/ Satisfies(predicate, node)
                                      THEN node ELSE NotFound]
          ELSE walk' = [stepped EXCEPT !.node = NextNode(parent, trackedParent),
                                       !.hops = @ + 1]
    /\ UNCHANGED <<nodes, ret, trackerVars, plan, matched>>
    /\ UNCHANGED batchVars

\* the bound is exceeded: reporter.error and return null
FindGiveUp ==
    /\ walk.pc = "loop"
    /\ ~WithinBound(walk.iterations)
    /\ walk' = [walk EXCEPT !.iterations = @ + 1, !.pc = "done", !.errors = @ + 1,
                            !.result = NotFound]
    /\ UNCHANGED <<nodes, ret, trackerVars, plan, matched>>
    /\ UNCHANGED batchVars

\* a direct call of trackInlineObjectsInRootNode; ret.call is the number of
\* consecutive calls made on the node
TrackNode(id) ==
    /\ walk.pc \in {"idle", "done"}
    /\ LET repeated == ret.op = "trackInline" /\ ret.tracked = SingleResult(id)
           tracker == trackInlineObjectsInRootNode(Tracker, nodes, id)
       IN /\ repeated => ret.call < MaxTracks
          /\ SetTracker(tracker)
          /\ ret' = [NoReturn EXCEPT !.op = "trackInline",
                                     !.call = IF repeated THEN ret.call + 1 ELSE 1,
                                     !.tracked = SingleResult(id),
                                     !.outcome = "void"]
    /\ walk' = NoWalk
    /\ UNCHANGED <<nodes, plan, matched>>
    /\ UNCHANGED batchVars

\* the objects a walk can start from: the nodes and their inline objects
StartObjects ==
    UNION {{<<id>>} \cup InlineObjects(nodes[id].value, <<id>>) : id \in DOMAIN nodes}

InitAncestor ==
    /\ nodes = AncestorStore
    /\ InitEngine

NextAncestor ==
    \/ \E id \in DOMAIN nodes : TrackNode(id)
    \/ \E obj \in StartObjects, predicate \in Predicates : FindStart(obj, predicate)
    \/ FindStep
    \/ FindGiveUp

SpecAncestor == InitAncestor /\ [][NextAncestor]_vars

(***************************************************************************)
(* The chain specification: walks over an acyclic chain of declared        *)
(* parents, node "0" being MaxHops parent hops away from the root.         *)
(***************************************************************************)
ChainStore ==
    [id \in {ToString(i) : i \in 0..MaxHops} |->
        LET i == CHOOSE k \in 0..MaxHops : ToString(k) = id
        IN StoreNode("Page", IF i < MaxHops THEN ToString(i + 1) ELSE NoParent,
                     [t |-> Scalar(TRUE)])]

InitChain ==
    /\ nodes = ChainStore
    /\ InitEngine

NextChain ==
    \/ \E id \in DOMAIN nodes, predicate \in Predicates : FindStart(<<id>>, predicate)
    \/ FindStep
    \/ FindGiveUp

SpecChain == InitChain /\ [][NextChain]_vars

(***************************************************************************)
(* getNodeById, getNodesByIds and getAllNodes.  An absent id or type is    *)
(* ""; the ids argument is an array of ids or something else.              *)
(***************************************************************************)
\* getNodes(), in store order
getNodes == SelectSeq(StoreOrder, LAMBDA id : id \in DOMAIN nodes)

\* nodeTypeNames.includes(node.internal.type)
IsOfType(id, type) == nodes[id].value.itype \in Range(toNodeTypeNames(type))

NodeByIdResult(id, type) ==
    IF getNodeById(id) = NotFound THEN NullResult
    ELSE IF type = "" THEN SingleResult(id)
    ELSE IF IsOfType(id, type) THEN SingleResult(id)
    ELSE NullResult

NotArray == [isArray |-> FALSE, ids |-> <<>>]

ArrayOf(ids) == [isArray |-> TRUE, ids |-> ids]

NodesByIdsResult(ids, type) ==
    LET found == IF ids.isArray
                 THEN SelectSeq(ids.ids, LAMBDA id : getNodeById(id) # NotFound)
                 ELSE <<>>
    IN IF found = <<>> \/ type = "" THEN ListResult(found)
       ELSE ListResult(SelectSeq(found, LAMBDA id : IsOfType(id, type)))

\* mutant: without a type getAllNodes finds nothing
AllNodesResultTyped(type) == ListResult(NodesOfTypes(nodes, toNodeTypeNames(type)))

AllNodesResult(type) ==
    IF type = "" THEN ListResult(getNodes)
    ELSE ListResult(NodesOfTypes(nodes, toNodeTypeNames(type)))

\* the common tail of the lookups: track the inline objects of the result,
\* then return through trackPageDependencies
ReturnTracked(op, context, ids, type, result) ==
    LET tracker == TrackEach(Tracker, nodes, result.ids)
        pageDependencies == LocalDependencies(context)
        tracked == trackPageDependencies(result, pageDependencies)
    IN /\ SetTracker(tracker)
       /\ ret' = [NoReturn EXCEPT !.op = op, !.type = type, !.context = context,
                                  !.ids = ids, !.pageDependencies = pageDependencies,
                                  !.tracked = result, !.result = tracked.result,
                                  !.edges = tracked.edges, !.outcome = "returned"]

GetNodeById(context, id, type) ==
    /\ \A c \in CallIds : calls[c].pc = "idle"
    /\ ReturnTracked("getNodeById", context, ArrayOf(<<id>>), type,
                     NodeByIdResult(id, type))
    /\ UNCHANGED <<nodes, walk, plan, matched>>
    /\ UNCHANGED batchVars

GetNodesByIds(context, ids, type) ==
    /\ \A c \in CallIds : calls[c].pc = "idle"
    /\ ReturnTracked("getNodesByIds", context, ids, type, NodesByIdsResult(ids, type))
    /\ UNCHANGED <<nodes, walk, plan, matched>>
    /\ UNCHANGED batchVars

\* getAllNodes calls trackPageDependencies only when it is handed page
\* dependencies; the view hands on null when its caller gave none
GetAllNodes(context, type) ==
    /\ \A c \in CallIds : calls[c].pc = "idle"
    /\ LET result == AllNodesResult(type)
       IN IF context.given
          THEN ReturnTracked("getAllNodes", context, NotArray, type, result)
          ELSE /\ SetTracker(TrackEach(Tracker, nodes, result.ids))
               /\ ret' = [NoReturn EXCEPT !.op = "getAllNodes", !.type = type,
                                          !.context = context, !.tracked = result,
                                          !.result = result, !.outcome = "returned"]
    /\ UNCHANGED <<nodes, walk, plan, matched>>
    /\ UNCHANGED batchVars

(***************************************************************************)
(* The lookup specification: the lookups and trackPageDependencies, called *)
(* on the LocalNodeModel or on a view with context path /view, in any      *)
(* sequence; or one runQuery call on a fresh engine.                       *)
(***************************************************************************)
Views == {NoView, View("/view")}

LookupDependencies ==
    {[path |-> path, connectionType |-> connectionType] :
        path \in {"", "/blog"}, connectionType \in {"", "Post"}}

AllContexts ==
    {Context(view, TRUE, supplied) : view \in Views, supplied \in LookupDependencies}
    \cup {Context(view, FALSE, NoDependencies) : view \in Views}

\* "9" is the id of no node, "" an absent id
LookupIds == DOMAIN nodes \cup {"9", ""}

LookupIdLists ==
    {NotArray} \cup
    {ArrayOf(q) : q \in {r \in {<<>>, <<"1">>, <<"9", "1">>, <<"1", "3">>,
                                <<"3", "9", "1">>} : Len(r) <= MaxResult}}

LookupTypes == {"", "Post", "Ghost"}

LookupResults == {NullResult, SingleResult("1"), ListResult(<<"3", NullEntry>>)}

NextLookup ==
    \/ \E context \in AllContexts, id \in LookupIds, type \in LookupTypes :
          GetNodeById(context, id, type)
    \/ \E context \in AllContexts, ids \in LookupIdLists, type \in LookupTypes :
          GetNodesByIds(context, ids, type)
    \/ \E context \in AllContexts, type \in LookupTypes : GetAllNodes(context, type)
    \/ \E context \in AllContexts, result \in LookupResults :
          TrackPageDependencies(result, context)
    \/ \E type \in {"Post", "Content"}, query \in {QueryT, QueryA} :
          ret = NoReturn /\ RunQuery(1, type, query)
    \/ \E j \in CallIds : JobStart(j)
    \/ \E j \in CallIds : JobVisit(j)
    \/ \E j \in CallIds : JobVisitThrows(j)
    \/ \E j \in CallIds : JobFinish(j)
    \/ RunQueryResume(1, AllContexts, 1)

SpecLookup == Init /\ [][NextLookup]_vars

(***************************************************************************)
(* The scan specification: nodes whose data holds references (a container  *)
(* that holds itself, a container that holds its node, a container and a   *)
(* node that are held by another node), scanned by direct calls and by     *)
(* lookups, while the store replaces a node by a new object with the same  *)
(* id.  The store has no parent cycle, so every walk ends within the       *)
(* bound.                                                                  *)
(***************************************************************************)
ScanStore ==
    [id \in {"1", "2", "3"} |->
        CASE id = "1" ->
               StoreNode("Post", NoParent,
                   [t |-> Scalar(TRUE),
                    internal |-> Object([content |-> Object([z |-> Scalar(TRUE)])]),
                    c |-> Object([x |-> Scalar(TRUE),
                                  node |-> RefTo(<<"1">>),
                                  self |-> RefTo(<<"1", "c">>),
                                  s |-> Object([internal |-> Object([y |-> Scalar(TRUE)])])])])
          [] id = "2" ->
               StoreNode("Page", NoParent,
                   [s |-> RefTo(<<"1", "c", "s">>),
                    n |-> RefTo(<<"3">>),
                    e |-> Object([y |-> Scalar(TRUE)])])
          [] id = "3" -> StoreNode("Page", "1", [t |-> Scalar(TRUE)])]

\* the object the store puts in the place of a node: same id, new containers
Replacement(id) == StoreNode("Page", NoParent, [f |-> Object([y |-> Scalar(TRUE)])])

\* the store replaces a node; the new object carries no resolved fields
ReplaceNode(id) ==
    /\ walk.pc # "loop"
    /\ nodes[id] # Replacement(id)
    /\ nodes' = [nodes EXCEPT ![id] = Replacement(id)]
    /\ resolved' = [resolved EXCEPT ![id] = EmptyShape]
    /\ UNCHANGED <<invocations, queues, promises, preparedCache, promiseState, jobs,
                   tickQueue, calls, ret, trackerVars, walk, plan, matched>>

InitScan ==
    /\ nodes = ScanStore
    /\ InitEngine

NextScan ==
    \/ \E id \in DOMAIN nodes : TrackNode(id)
    \/ \E id \in DOMAIN nodes :
          /\ walk.pc # "loop"
          /\ GetNodeById(Context(NoView, FALSE, NoDependencies), id, "")
    \/ ReplaceNode("2")
    \/ \E obj \in StartObjects, predicate \in Predicates : FindStart(obj, predicate)
    \/ FindStep

SpecScan == InitScan /\ [][NextScan]_vars

(***************************************************************************)
(* The planning specification: the query field planner and the             *)
(* resolvable-field determiner as runQuery applies them (lines 250-262),   *)
(* and the merge of two queued requests as the batch job applies it        *)
(* (lines 353-367), over bounded sets of queries.                          *)
(***************************************************************************)
PlanTypes == {"Post", "Page", "Content"}

OptionalEntry(entries) == {<<>>} \cup {<<e>> : e \in entries}

PlanFilters(type) ==
    IF type = "Post"
    THEN {a \o c \o d :
            a \in OptionalEntry({<<"a", Eq>>}),
            c \in OptionalEntry({<<"c", FObject(<< <<"x", Eq>> >>)>>,
                                 <<"c", FObject(<< <<"y", Eq>> >>)>>,
                                 <<"c", FObject(<< <<"elemMatch",
                                                     FObject(<< <<"x", Eq>> >>)>> >>)>>}),
            d \in OptionalEntry({<<"d", FObject(<< <<"x", Eq>> >>)>>,
                                 <<"d", FObject(<< <<"y", Eq>> >>)>>})}
    ELSE {a \o t : a \in OptionalEntry({<<"a", Eq>>}), t \in OptionalEntry({<<"t", Eq>>})}

PlanSorts(type) ==
    IF type = "Post"
    THEN {<<>>, << <<"t">> >>, << <<"c", "x">> >>, << <<"d">> >>, << <<"d">>, <<"t">> >>}
    ELSE {<<>>, << <<"t">> >>}

PlanPaths(type) ==
    IF type = "Post"
    THEN {NoPaths, OnePath(<<"d">>), OnePath(<<"c">>), PathList(<< <<"d", "y">>, <<"b">> >>)}
    ELSE {NoPaths, OnePath(<<"a">>)}

PlanQueries(type) ==
    {[filter |-> filter, sort |-> sort, group |-> NoPaths, distinct |-> distinct] :
        filter \in PlanFilters(type), sort \in PlanSorts(type),
        distinct \in PlanPaths(type)}
    \cup {[filter |-> <<>>, sort |-> <<>>, group |-> group, distinct |-> NoPaths] :
            group \in PlanPaths(type)}

\* the shapes getQueryFields hands to _.merge, in order
QueryShapes(query) ==
    LET group == IF query.group.kind = "none" THEN <<>> ELSE query.group.paths
        distinct == IF query.distinct.kind = "none" THEN <<>> ELSE query.distinct.paths
        paths == query.sort \o group \o distinct
    IN <<dropQueryOperators(query.filter)>>
       \o [i \in DOMAIN paths |-> pathToObject(paths[i])]

\* lines 250-262 of runQuery
Plan(type, query) ==
    /\ LET fields == getQueryFields(query)
           fieldsToResolve ==
               determineResolvableFields(type, fields, toNodeTypeNames(type), FALSE)
       IN plan' = [op |-> "plan", type |-> type, query |-> query,
                   shapes |-> QueryShapes(query),
                   fields |-> fields, fieldsToResolve |-> fieldsToResolve,
                   outcome |-> "returned"]
    /\ UNCHANGED <<nodes, ret, trackerVars, walk, matched>>
    /\ UNCHANGED batchVars

\* the request runQuery enqueues for a query
Request(type, query) ==
    LET fields == getQueryFields(query)
    IN [queryFields |-> fields,
        fieldsToResolve |->
            determineResolvableFields(type, fields, toNodeTypeNames(type), FALSE)]

\* lines 353-367: the reduce of a queue of two requests
MergeRequests(type, query1, query2) ==
    /\ LET queue == <<Request(type, query1), Request(type, query2)>>
           merged == MergedQueue(queue)
       IN plan' = [op |-> "merge", type |-> type, query |-> NoQuery,
                   shapes |-> <<queue[1].fieldsToResolve, queue[2].fieldsToResolve>>,
                   fields |-> merged.queryFields,
                   fieldsToResolve |-> merged.fieldsToResolve,
                   outcome |-> "returned"]
    /\ UNCHANGED <<nodes, ret, trackerVars, walk, matched>>
    /\ UNCHANGED batchVars

NextPlan ==
    \/ \E type \in PlanTypes : \E query \in PlanQueries(type) : Plan(type, query)
    \/ \E type \in QueryTypes \ {"Any"} : \E query1, query2 \in QueriesOf(type) :
          MergeRequests(type, query1, query2)

SpecPlan == Init /\ [][NextPlan]_vars

(***************************************************************************)
(* The rules specification: rules.js and rules.dependencies, both made     *)
(* with one list of modulesThatUseGatsby, matched against module paths     *)
(* inside and outside node_modules and bower_components.                   *)
(***************************************************************************)
\* modulesThatUseGatsby: packages of the site's node_modules, each with its
\* name and its path
ModuleLists ==
    {[i \in DOMAIN q |-> [name |-> q[i][Len(q[i])], path |-> q[i]]] :
        q \in InjectiveSeqs({<<"/", "site", "/", "node_modules", "/", package>> :
                                package \in {"gatsby-theme", "other", "left-pad"}},
                            MaxModules)}

\* one directory level: a folder of the site, or a package of a vendor
\* directory
Levels ==
    {<<"/", "src">>}
    \cup {<<"/", vendorDirectory, "/">> \o package :
            vendorDirectory \in {"node_modules", "bower_components"},
            package \in VENDORS_TO_NOT_POLYFILL
                         \cup {<<"gatsby-theme">>, <<"other">>, <<"left-pad">>}}

\* module paths: a file of the site directory, at most two levels deep
RulePaths ==
    {<<"/", "site">> \o directory \o <<"/", "index", extension>> :
        directory \in {<<>>} \cup Levels
                         \cup {outer \o inner : outer \in Levels, inner \in Levels},
        extension \in {".js", ".mjs", ".jsx", ".css"}}

\* the rules read nothing but their arguments: one module path is matched
\* in a behaviour
MatchRules(modulesThatUseGatsby, modulePath) ==
    /\ matched = NoMatch
    /\ LET included == jsInclude(modulesThatUseGatsby, modulePath)
           excluded == dependenciesExclude(modulesThatUseGatsby, modulePath)
       IN matched' = [op |-> "match", modulesThatUseGatsby |-> modulesThatUseGatsby,
                      modulePath |-> modulePath,
                      jsIncluded |-> included,
                      jsApplies |-> jsTest(modulePath) /\ included,
                      dependenciesExcluded |-> excluded,
                      dependenciesApplies |-> dependenciesTest(modulePath) /\ ~excluded]
    /\ UNCHANGED <<nodes, ret, trackerVars, walk, plan>>
    /\ UNCHANGED batchVars

NextRules ==
    /\ matched = NoMatch
    /\ \E modulesThatUseGatsby \in ModuleLists, modulePath \in RulePaths :
        MatchRules(modulesThatUseGatsby, modulePath)

SpecRules == Init /\ [][NextRules]_vars

(***************************************************************************)
(* Properties.                                                             *)
(***************************************************************************)
Started(j) == jobs[j].state \in {"running", "done", "failed"}

Returned == ret.outcome = "returned"

\* C1: at any instant at most one resolution job per type is running: a
\* request that arrives while the job of its type is suspended in the bulk
\* visit does not make a second job of that type start before the first
\* has finished.
C1_SingleJobPerType ==
    \A j1, j2 \in CallIds :
        (j1 # j2 /\ jobs[j1].state = "running" /\ jobs[j2].state = "running")
            => jobs[j1].type # jobs[j2].type

\* C2 (as amended): the requests issued for a type within one scheduler
\* turn, that is the requests that share a promise, are all drained by the
\* one job of that promise, and that job invokes saveResolvedNodes at most
\* once: once when the difference to the prepared cache is not empty, not
\* at all when it is empty.
C2_OneJobPerTurn ==
    \A j \in CallIds :
        Started(j) =>
            /\ jobs[j].drained = Cardinality({c \in CallIds : calls[c].promise = j})
            /\ jobs[j].drained >= 1
            /\ jobs[j].saves <= 1
            /\ jobs[j].saves = 1 <=> ~IsEmpty(jobs[j].actualFieldsToResolve)

C2_Witness ==
    \E j \in CallIds :
        jobs[j].state = "done" /\ jobs[j].drained = 2 /\ jobs[j].saves = 1

\* C2 (as stated): every job that has served the N >= 1 requests of a
\* scheduler turn has invoked saveResolvedNodes exactly once.
C2_ExactlyOneBulkVisit ==
    \A j \in CallIds : jobs[j].state = "done" => jobs[j].saves = 1

\* C3: a batch does not invoke the resolver of a field that the prepared
\* cache of its type already held when the batch began: no visit of the
\* batch increases the invocation counter of such a field.
C3_NoRecompute ==
    [][\A j \in CallIds :
          (jobs[j].state = "running" /\ jobs'[j] # jobs[j] /\ jobs[j].remaining # <<>>)
              => \A p \in Paths(jobs[j].prepared) \cap ResolverPaths :
                    invocations'[Head(jobs[j].remaining)][p]
                        = invocations[Head(jobs[j].remaining)][p]]_vars

\* C4: the resolved-field cache of every node and the prepared-cache shape
\* of every type only grow: no step removes a field path from either.
C4_CachesOnlyGrow ==
    [][/\ \A id \in DOMAIN nodes : Paths(resolved[id]) \subseteq Paths(resolved'[id])
       /\ \A t \in BatchTypes :
             Paths(preparedCache[t]) \subseteq Paths(preparedCache'[t])]_vars

\* C5: when a resolver raises during a batch, the completion signal every
\* waiting runQuery call awaits is rejected, so that each of them fails.
C5_FailurePropagates ==
    \A c \in CallIds :
        (calls[c].pc = "awaitPrepare" /\ jobs[calls[c].promise].state = "failed")
            => promiseState[calls[c].promise] = "rejected"

\* C6: runQuery against the union type fails, returns no result, enqueues
\* no request and records no dependency edge.
C6_UnionRejected ==
    /\ queues["Any"] = <<>>
    /\ promises["Any"] = 0
    /\ \A c \in CallIds :
          (calls[c].pc # "idle" /\ calls[c].type = "Any")
              => /\ calls[c].pc = "failed"
                 /\ calls[c].promise = 0
                 /\ ret.call = c => (ret.outcome = "failed" /\ ret.edges = <<>>)

C6_Witness == calls[1].type = "Any" /\ calls[1].pc = "failed" /\ ret.call = 1

\* the node types of the schema a connection marker stands for
ExpectedConnections(connectionType) ==
    CASE connectionType = "Post" -> <<"Post">>
      [] connectionType = "Content" -> <<"Post", "Page">>
      [] OTHER -> <<>>

\* C7 (as amended): with a path and a connection marker the tracker records
\* one connection edge for every node type the marker stands for (one for
\* an object type that implements Node, one per implementing node type for
\* an abstract type, none for a type that is no node type of the schema),
\* whatever the result.
C7_ConnectionEdges ==
    (Returned /\ ret.pageDependencies.path # ""
              /\ ret.pageDependencies.connectionType # "")
        => LET expected == ExpectedConnections(ret.pageDependencies.connectionType)
           IN ret.edges = [i \in DOMAIN expected |->
                              ConnectionEdge(ret.pageDependencies.path, expected[i])]

C7_Witness ==
    /\ Returned
    /\ ret.pageDependencies = [path |-> "/blog", connectionType |-> "Post"]
    /\ ret.tracked.kind = "list" /\ Len(ret.tracked.ids) = 2
    /\ ret.edges = <<ConnectionEdge("/blog", "Post")>>

\* C7 (as stated): with a path and a connection marker exactly one edge
\* {path, connection: marker} is recorded, whatever type the marker names.
C7_ExactlyOneConnectionEdge ==
    (Returned /\ ret.pageDependencies.path # ""
              /\ ret.pageDependencies.connectionType # "")
        => ret.edges = <<ConnectionEdge(ret.pageDependencies.path,
                                        ret.pageDependencies.connectionType)>>

NonNull(ids) == SelectSeq(ids, LAMBDA id : id # NullEntry)

\* C8: with a path and no connection marker one node edge is recorded for
\* every non-null node of the result, in order, and none for null entries;
\* runQuery with firstOnly returns and tracks exactly the first match, or
\* returns null and tracks nothing when nothing matches.
C8_NodeEdges ==
    (Returned /\ ret.pageDependencies.path # ""
              /\ ret.pageDependencies.connectionType = "")
        => /\ ret.edges = [i \in DOMAIN NonNull(ret.tracked.ids) |->
                              NodeEdge(ret.pageDependencies.path,
                                       NonNull(ret.tracked.ids)[i])]
           /\ (ret.op = "runQuery" /\ ret.firstOnly)
                 => IF ret.queryResult.kind = "list" /\ ret.queryResult.ids # <<>>
                    THEN /\ ret.result = SingleResult(ret.queryResult.ids[1])
                         /\ ret.edges = <<NodeEdge(ret.pageDependencies.path,
                                                   ret.queryResult.ids[1])>>
                    ELSE ret.result = NullResult /\ ret.edges = <<>>

C8_Witness ==
    /\ Returned /\ ret.op = "runQuery" /\ ret.firstOnly
    /\ ret.pageDependencies = [path |-> "/blog", connectionType |-> ""]
    /\ Len(ret.queryResult.ids) = 2
    /\ Len(ret.edges) = 1

\* C9: trackPageDependencies returns the result it was given, and without a
\* consumer path it records no edge.
C9_PassThrough ==
    Returned => /\ ret.result = ret.tracked
                /\ ret.pageDependencies.path = "" => ret.edges = <<>>

C9_Witness ==
    /\ Returned /\ ret.op = "runQuery"
    /\ ret.pageDependencies = [path |-> "", connectionType |-> "Post"]
    /\ ret.result.kind = "list" /\ Len(ret.result.ids) = 2
    /\ ret.edges = <<>>

SelfParent(obj) == IsNode(obj) /\ nodes[obj[1]].parent = obj[1]

\* C10: for a stored node that is its own parent, findRootNodeAncestor
\* without a predicate stops: it makes exactly 100 hops, reports one error
\* and returns null.
C10_SelfParentBound ==
    (walk.pc # "idle" /\ SelfParent(walk.start) /\ walk.predicate = "")
        => /\ walk.iterations <= MaxHops + 1
           /\ walk.pc = "loop" => (walk.hops = walk.iterations /\ walk.errors = 0)
           /\ walk.pc = "done" => /\ walk.hops = 100
                                  /\ walk.errors = 1
                                  /\ walk.result = NotFound

C10_Witness ==
    walk.pc = "done" /\ walk.start = <<"4">> /\ walk.predicate = "" /\ walk.hops = 100

\* C11: a second call of trackInlineObjectsInRootNode on a node leaves the
\* root-node index and the tracked set as the first call left them and
\* walks nothing: no node is ever walked twice.
C11_IdempotentTracking ==
    [][/\ (ret'.op = "trackInline" /\ ret'.call >= 2)
            => /\ rootNodeMap' = rootNodeMap
               /\ trackedRootNodes' = trackedRootNodes
               /\ inlineWalks' = inlineWalks
       /\ \A id \in DOMAIN nodes : inlineWalks'[id] <= 1]_vars

C11_Witness ==
    /\ ret.op = "trackInline" /\ ret.call = 2 /\ ret.tracked = SingleResult("1")
    /\ DOMAIN rootNodeMap = {<<"1", "c">>} /\ rootNodeMap[<<"1", "c">>] = "1"
    /\ trackedRootNodes = {"1"}
    /\ inlineWalks["1"] = 1

\* the graphql type of the field at the end of a path, "" when unknown
RECURSIVE TypeAt(_, _)
TypeAt(type, path) ==
    IF path = <<>> THEN type
    ELSE IF Head(path) \in DOMAIN GqlFields(type)
    THEN TypeAt(GqlFields(type)[Head(path)].type, Tail(path))
    ELSE ""

\* the needs-resolution metadata marks the field at the end of the path on
\* its declaring type or on a node type that type stands for
MarkedSelf(type, path) ==
    LET declaring == TypeAt(type, SubSeq(path, 1, Len(path) - 1))
    IN \E tc \in {declaring} \cup Range(toNodeTypeNames(declaring)) :
          getFieldExtension(tc, path[Len(path)])

ProperPrefix(p, q) == Len(p) < Len(q) /\ SubSeq(q, 1, Len(p)) = p

\* C12: when a field a of the queried type needs resolution and a.b is
\* requested, the determiner marks b beneath a, also when b itself carries
\* no needs-resolution mark.
C12_DownwardPropagation ==
    plan.op = "plan" =>
        \A p \in Paths(plan.fields) :
            (Len(p) = 2 /\ MarkedSelf(plan.type, <<p[1]>>))
                => p \in Paths(plan.fieldsToResolve)

C12_Witness ==
    /\ plan.op = "plan" /\ plan.type = "Post"
    /\ <<"d", "y">> \in Paths(plan.fields)
    /\ MarkedSelf("Post", <<"d">>) /\ ~MarkedSelf("Post", <<"d", "y">>)
    /\ plan.fieldsToResolve = Shape1("d", Nested(Shape1("y", Leaf)))

\* the edges a result is tracked with under page dependencies
ExpectedEdges(result, pageDependencies) ==
    IF pageDependencies.path = "" THEN <<>>
    ELSE IF pageDependencies.connectionType # ""
    THEN LET expected == ExpectedConnections(pageDependencies.connectionType)
         IN [i \in DOMAIN expected |-> ConnectionEdge(pageDependencies.path, expected[i])]
    ELSE [i \in DOMAIN NonNull(result.ids) |->
             NodeEdge(pageDependencies.path, NonNull(result.ids)[i])]

\* the context of a view merged under the context its caller supplied
MergedContext(context) ==
    [path |-> IF context.given /\ context.supplied.path # ""
              THEN context.supplied.path ELSE context.view.path,
     connectionType |-> IF context.given THEN context.supplied.connectionType ELSE ""]

\* C13 (as amended): getNodeById, getNodesByIds, runQuery and
\* trackPageDependencies of a view track their result under the view's
\* context merged under the caller's (the caller's path replaces the
\* view's, without one the view's path is used); getAllNodes does so only
\* when its caller supplies page dependencies, and tracks nothing when the
\* caller supplies none.
C13_ViewContextMerged ==
    (Returned /\ ret.context.view.wrapped)
        => IF ret.op = "getAllNodes" /\ ~ret.context.given
           THEN ret.edges = <<>>
           ELSE ret.edges = ExpectedEdges(ret.result, MergedContext(ret.context))

C13_Witness ==
    /\ Returned /\ ret.op = "getNodeById"
    /\ ret.context = Context(View("/view"), FALSE, NoDependencies)
    /\ ret.result = SingleResult("1")
    /\ ret.edges = <<NodeEdge("/view", "1")>>

\* C13 (as stated): every operation of a view, getAllNodes included, tracks
\* its result under the view's context merged under the caller's, so that
\* a call without page dependencies is tracked under the view's path.
C13_EveryOperationMerged ==
    (Returned /\ ret.context.view.wrapped)
        => ret.edges = ExpectedEdges(ret.result, MergedContext(ret.context))

\* C14: called on the LocalNodeModel, getAllNodes without a type returns
\* every node of the store, getNodesByIds without a list of ids returns an
\* empty list, and a lookup without page dependencies records no edge.
C14_AbsentArguments ==
    Returned =>
        /\ (ret.op = "getAllNodes" /\ ret.type = "")
              => ret.result = ListResult(<<"1", "2", "3">>)
        /\ (ret.op = "getNodesByIds" /\ ~ret.ids.isArray)
              => ret.result = ListResult(<<>>)
        /\ (~ret.context.view.wrapped /\ ~ret.context.given) => ret.edges = <<>>

C14_Witness ==
    /\ Returned /\ ret.op = "getAllNodes" /\ ret.type = ""
    /\ ret.context = Context(NoView, FALSE, NoDependencies)
    /\ Len(ret.result.ids) = 3
    /\ ret.edges = <<>>
    /\ trackedRootNodes = {"1", "2", "3"}

Waiting(c) == calls[c].pc \in {"awaitPrepare", "done"}

\* C15: a request enqueued for a type before the job of its promise began
\* is drained by that job (until then it sits in the queue of the type and
\* the type holds that promise); a request enqueued after a job began is
\* not attached to the promise of that job: the callers that hold the
\* promise of a started job are exactly the callers whose requests it
\* drained.
C15_DrainedByOwnJob ==
    /\ \A c \in CallIds :
          Waiting(c) =>
              LET j == calls[c].promise
              IN IF Started(j)
                 THEN c \in jobs[j].drainedCalls
                 ELSE /\ promises[calls[c].type] = j
                      /\ \E i \in DOMAIN queues[calls[c].type] :
                            queues[calls[c].type][i].call = c
    /\ \A j \in CallIds :
          Started(j) => jobs[j].drainedCalls = {c \in CallIds : Waiting(c) /\ calls[c].promise = j}

C15_Witness ==
    /\ jobs[1].state = "running" /\ jobs[1].drainedCalls = {1}
    /\ jobs[2].state = "running" /\ jobs[2].drainedCalls = {2}
    /\ jobs[1].type = jobs[2].type
    /\ calls[2].promise = 2

\* C16: the promise of a job is fulfilled only when the job is done: the
\* bulk visit has no node left and the prepared cache of the type holds
\* the fields the job resolved; and a runQuery call goes on to the
\* filter/sort engine only when the job that drained its request is done.
C16_CompletionAfterJob ==
    [][/\ \A j \in CallIds :
             (promiseState'[j] = "fulfilled" /\ promiseState[j] # "fulfilled")
                 => /\ jobs'[j].state = "done"
                    /\ jobs'[j].remaining = <<>>
                    /\ Paths(jobs'[j].actualFieldsToResolve)
                           \subseteq Paths(preparedCache'[jobs'[j].type])
       /\ \A c \in CallIds :
             calls'[c].pc = "done"
                 => /\ promiseState'[calls'[c].promise] = "fulfilled"
                    /\ jobs'[calls'[c].promise].state = "done"
                    /\ c \in jobs'[calls'[c].promise].drainedCalls]_vars

C16_Witness ==
    /\ calls[1].pc = "done" /\ jobs[1].state = "done" /\ jobs[1].saves = 1
    /\ <<"a">> \in Paths(preparedCache["Post"])
    /\ <<"a">> \in Paths(resolved["1"])

\* the difference the job of a scheduled promise would compute now
DifferenceNow(j) ==
    deepObjectDifference(MergedQueue(queues[jobs[j].type]).fieldsToResolve,
                         preparedCache[jobs[j].type])

\* C17: a job whose difference to the prepared cache is empty makes no
\* bulk visit, invokes no resolver, leaves the prepared cache and the
\* resolved fields as they are and fulfils its promise; every scheduled
\* job is eventually run, and every call that waits for a done job
\* eventually goes on.
C17_EmptyDifferenceCompletes ==
    /\ [][\A j \in CallIds :
             (jobs[j].state = "scheduled" /\ jobs'[j].state # "scheduled"
                 /\ DOMAIN DifferenceNow(j) = {})
                 => /\ jobs'[j].state = "done"
                    /\ jobs'[j].saves = 0
                    /\ promiseState'[j] = "fulfilled"
                    /\ invocations' = invocations
                    /\ resolved' = resolved
                    /\ preparedCache' = preparedCache]_vars
    /\ \A j \in CallIds : (jobs[j].state = "scheduled") ~> (jobs[j].state # "scheduled")
    /\ \A c \in CallIds :
          (calls[c].pc = "awaitPrepare" /\ jobs[calls[c].promise].state = "done")
              ~> (calls[c].pc = "done")

C17_Witness ==
    /\ jobs[1].state = "done" /\ jobs[1].saves = 0 /\ jobs[1].drained = 2
    /\ promiseState[1] = "fulfilled"
    /\ calls[1].pc = "done" /\ calls[2].pc = "done"
    /\ \A id \in DOMAIN nodes : \A p \in ResolverPaths : invocations[id][p] = 0

\* C18: at the moment a job completes, the queue of its type is empty and
\* the type has no promise, whatever requests arrived while it ran.
C18_ClearedAtCompletion ==
    [][\A j \in CallIds :
          (jobs'[j].state = "done" /\ jobs[j].state # "done")
              => /\ queues'[jobs'[j].type] = <<>>
                 /\ promises'[jobs'[j].type] = 0]_vars

\* C19: the determiner marks a requested field only if the
\* needs-resolution metadata marks the field itself (on its declaring type
\* or a node type that type stands for), one of its requested descendants
\* or one of its ancestors: a nested field whose ancestors, self and
\* descendants are all unmarked is not in the output.
C19_OnlyFieldsThatNeedResolution ==
    plan.op = "plan" =>
        \A p \in Paths(plan.fieldsToResolve) :
            \/ MarkedSelf(plan.type, p)
            \/ \E q \in Paths(plan.fields) : ProperPrefix(p, q) /\ MarkedSelf(plan.type, q)
            \/ \E i \in 1..(Len(p) - 1) : MarkedSelf(plan.type, SubSeq(p, 1, i))

\* two shapes carry a leaf and a nested descriptor for the same key at the
\* same level
RECURSIVE Mismatch(_, _)
Mismatch(shape1, shape2) ==
    \E k \in DOMAIN shape1 \cap DOMAIN shape2 :
        \/ shape1[k].leaf # shape2[k].leaf
        \/ ~shape1[k].leaf /\ Mismatch(shape1[k].sub, shape2[k].sub)

\* C20: when two of the shapes handed to a merge (by the planner or by the
\* batch job) carry a leaf and a nested descriptor for the same key, the
\* merge raises an error instead of returning a shape.
C20_MalformedShapesFail ==
    (plan.op # "none"
        /\ \E i, j \in DOMAIN plan.shapes : i < j /\ Mismatch(plan.shapes[i], plan.shapes[j]))
        => plan.outcome = "failed"

\* the field paths a filter names: the keys that lead to an operator
\* object, elemMatch standing for the fields of the list's elements
RECURSIVE FilterPaths(_)
FilterPaths(filter) ==
    UNION {LET key == filter[i][1]
               value == filter[i][2]
               nested == value.plain /\ Len(value.obj) > 0 /\ value.obj[1][2].plain
               inner == IF ~nested THEN <<>>
                        ELSE IF value.obj[1][1] = "elemMatch" THEN value.obj[1][2].obj
                        ELSE value.obj
           IN {<<key>>} \cup {<<key>> \o p : p \in FilterPaths(inner)}
           : i \in DOMAIN filter}

\* every field path a query touches: the paths of its filter and the paths
\* listed in sort.fields, group and distinct
TouchedPaths(query) ==
    FilterPaths(query.filter)
    \cup Range(query.sort) \cup Range(query.group.paths) \cup Range(query.distinct.paths)

\* C21: every field path named in the filter, in sort.fields, in group or
\* in distinct of a query is a path of the shape getQueryFields returns for
\* it, for every combination of these inputs.
C21_CoversEveryTouchedPath ==
    plan.op = "plan" => TouchedPaths(plan.query) \subseteq Paths(plan.fields)

\* where the walk goes from an object: to its declared parent if the
\* store has it, else to the parent the root-node index names
RECURSIVE ExpectedAncestor(_, _, _)
ExpectedAncestor(obj, predicate, fuel) ==
    LET declared == getNodeById(ParentOf(obj))
        tracked == getNodeById(TrackedIdOf(obj))
        next == IF declared # NotFound THEN declared ELSE tracked
    IN IF predicate # "" /\ Satisfies(predicate, obj) THEN obj
       ELSE IF next = NotFound THEN (IF predicate = "" THEN obj ELSE NotFound)
       ELSE IF fuel = 0 THEN NotFound
       ELSE ExpectedAncestor(next, predicate, fuel - 1)

\* C22: a walk that ends within the bound returns, with a predicate, the
\* first value on the way from the start value (included) along declared
\* parents, or tracked parents where no parent is declared, that satisfies
\* the predicate, and null when the root does not satisfy it; without a
\* predicate it returns the value that has neither a declared nor a
\* tracked parent in the store.
C22_WalkPrefersDeclaredParent ==
    [][(walk.pc = "loop" /\ walk'.pc = "done" /\ walk'.errors = 0)
          => /\ walk'.result = ExpectedAncestor(walk.start, walk.predicate, MaxHops)
             /\ walk.predicate = ""
                   => /\ getNodeById(ParentOf(walk'.result)) = NotFound
                      /\ getNodeById(TrackedIdOf(walk'.result)) = NotFound]_vars

C22_Witness ==
    /\ walk.pc = "done" /\ walk.start = <<"3">> /\ walk.predicate = ""
    /\ getNodeById(ParentOf(<<"3">>)) = <<"1">>
    /\ getNodeById(TrackedIdOf(<<"3">>)) = <<"2">>
    /\ walk.result = <<"1">> /\ walk.hops = 1 /\ walk.errors = 0

\* the containers data holds in its fields
Held(store, data, keys) == {ContainerAt(store, data, key) : key \in keys} \ {<<>>}

\* the containers reachable from those in S without passing through root
RECURSIVE Closure(_, _, _)
Closure(store, root, S) ==
    LET next == S \cup UNION {Held(store, data, DOMAIN ObjectAt(store, data).sub) :
                                data \in S \ {root}}
    IN IF next = S THEN S ELSE Closure(store, root, next)

\* every plain object or array reachable from a node other than through
\* its top-level internal field, the node itself left out
Reachable(store, nodeId) ==
    Closure(store, <<nodeId>>,
            Held(store, <<nodeId>>, DOMAIN store[nodeId].value.sub \ {"internal"}))
        \ {<<nodeId>>}

\* the fields of the node and of the containers reachable from it that
\* hold a container
Slots(store, nodeId) ==
    {<<data, key>> \in UNION {{data} \X DOMAIN ObjectAt(store, data).sub :
                                 data \in Reachable(store, nodeId) \cup {<<nodeId>>}} :
        ContainerAt(store, data, key) # <<>>}

\* C24: a scan of a node ends after at most one call per field that holds
\* a container and walks no container twice, also when a container holds
\* itself or the node; after it every plain object or array reachable from
\* the node other than through its top-level internal field maps to the
\* node's id in the root-node index, the entries of all other objects are
\* as before, and the scan does not enter the node itself in the index.
C24_ScanTerminatesAndTracks ==
    [][\A id \in DOMAIN nodes :
          inlineWalks'[id] = inlineWalks[id] + 1
              => LET scan == ScanOf(nodes, id)
                 IN /\ scan.calls <= 1 + Cardinality(Slots(nodes, id))
                    /\ \A i, j \in DOMAIN scan.walked :
                          i # j => scan.walked[i] # scan.walked[j]
                    /\ DOMAIN rootNodeMap' = DOMAIN rootNodeMap \cup Reachable(nodes, id)
                    /\ \A c \in Reachable(nodes, id) : rootNodeMap'[c] = id
                    /\ \A c \in DOMAIN rootNodeMap \ Reachable(nodes, id) :
                          rootNodeMap'[c] = rootNodeMap[c]
                    /\ <<id>> \notin scan.set]_vars

C24_Witness ==
    /\ nodes = ScanStore /\ trackedRootNodes = {"1"} /\ inlineWalks["1"] = 1
    /\ ObjectAt(nodes, <<"1", "c">>).sub["self"] = RefTo(<<"1", "c">>)
    /\ ObjectAt(nodes, <<"1", "c">>).sub["node"] = RefTo(<<"1">>)
    /\ DOMAIN rootNodeMap = {<<"1", "c">>, <<"1", "c", "s">>, <<"1", "c", "s", "internal">>}
    /\ \A c \in DOMAIN rootNodeMap : rootNodeMap[c] = "1"

\* C30: when a lookup returns a node, every plain object or array nested
\* in the node outside its top-level internal field maps to the node's id
\* in the root-node index, also when the store replaced the node after an
\* earlier scan and when another scanned node holds the same container.
C30_ReturnedNodesAreIndexed ==
    [][(ret' # ret /\ ret'.op = "getNodeById" /\ ret'.result.kind = "node")
          => \A c \in Reachable(nodes', ret'.result.ids[1]) :
                /\ c \in DOMAIN rootNodeMap'
                /\ rootNodeMap'[c] = ret'.result.ids[1]]_vars

\* the number of declared-parent hops from a node to its root, and that
\* root, in a store without parent cycle
RECURSIVE ParentHops(_)
ParentHops(obj) ==
    IF getNodeById(ParentOf(obj)) = NotFound THEN 0
    ELSE 1 + ParentHops(getNodeById(ParentOf(obj)))

RECURSIVE RootOf(_)
RootOf(obj) ==
    IF getNodeById(ParentOf(obj)) = NotFound THEN obj
    ELSE RootOf(getNodeById(ParentOf(obj)))

\* C23: for an acyclic chain of parents whose root is at most 100 parent
\* hops away from the start value, 100 included, findRootNodeAncestor
\* without a predicate returns the root and reports no error.
C23_RootWithinHundredHops ==
    (walk.pc = "done" /\ walk.predicate = "" /\ ParentHops(walk.start) <= 100)
        => walk.result = RootOf(walk.start) /\ walk.errors = 0

\* the step of job j is the visit of a node that returns
Visits(j) ==
    /\ jobs[j].state = "running" /\ jobs'[j].state = "running"
    /\ jobs[j].remaining # <<>> /\ jobs'[j].remaining = Tail(jobs[j].remaining)

\* C25: the visit of a node resolves every field of the query shape that
\* is absent from the resolve shape and for which the node carries a value
\* that is not null, the values 0, false and the empty string included:
\* each such field is in the resolved fields of the node after the visit.
C25_PlainValuesResolved ==
    [][\A j \in CallIds :
          Visits(j) =>
              LET id == Head(jobs[j].remaining)
              IN \A f \in DOMAIN jobs[j].queryFields \ DOMAIN jobs[j].actualFieldsToResolve :
                    Get(nodes[id].value, f).kind # "null" => f \in DOMAIN resolved'[id]]_vars

\* C26: whenever the difference a job computes omits a path of the merged
\* fields-to-resolve shape, the prepared cache of the type holds that very
\* path, not only a leaf marker for one of its ancestors.
C26_SkippedOnlyIfResolved ==
    [][\A j \in CallIds :
          (jobs[j].state = "scheduled" /\ jobs'[j].state # "scheduled")
              => \A p \in Paths(MergedQueue(queues[jobs[j].type]).fieldsToResolve)
                             \ Paths(DifferenceNow(j)) :
                    p \in Paths(preparedCache[jobs[j].type])]_vars

\* C27: when the promise of a batch is fulfilled, the resolver of every
\* field with a resolver in the merged fields-to-resolve of the batch has
\* been invoked on every node of the type's node types that is in the
\* store at that moment, the nodes created after an earlier batch resolved
\* the same fields included.
C27_EveryStoredNodeResolved ==
    [][\A j \in CallIds :
          (promiseState'[j] = "fulfilled" /\ promiseState[j] # "fulfilled")
              => \A id \in Range(NodesOfTypes(nodes', jobs'[j].nodeTypeNames)) :
                    \A f \in DOMAIN jobs'[j].fieldsToResolve :
                        HasResolver(GqlFields(nodes'[id].value.itype), f)
                            => invocations'[id][<<f>>] >= 1]_vars

\* C28: when a resolver raises during a batch, the prepared cache is left
\* as it is, and the queue of the type holds none of the requests of the
\* batch and the type does not hold its promise, so that a request made
\* afterwards while no promise is held creates a new promise and schedules
\* a new job; and when that job merges the same fields to resolve over the
\* same prepared cache, its difference is the one of the failed batch and
\* the bulk visit is made again.
C28_FailureLeavesNoTrace ==
    [][/\ \A j \in CallIds :
             (jobs[j].state = "running" /\ jobs'[j].state = "failed")
                 => /\ preparedCache' = preparedCache
                    /\ promises'[jobs[j].type] # j
                    /\ \A i \in DOMAIN queues'[jobs[j].type] :
                          queues'[jobs[j].type][i].call \notin jobs[j].drainedCalls
       /\ \A c \in CallIds :
             (calls[c].pc = "idle" /\ calls'[c].pc = "awaitPrepare"
                 /\ promises[calls'[c].type] = 0
                 /\ \E j \in CallIds : jobs[j].state = "failed" /\ jobs[j].type = calls'[c].type)
                 => /\ calls'[c].promise = c
                    /\ promises'[calls'[c].type] = c
                    /\ jobs'[c].state = "scheduled"
                    /\ tickQueue' = Append(tickQueue, c)
       /\ \A j, k \in CallIds :
             (jobs[j].state = "failed" /\ jobs[k].state = "scheduled"
                 /\ jobs'[k].state # "scheduled" /\ jobs[k].type = jobs[j].type
                 /\ preparedCache[jobs[j].type] = jobs[j].prepared
                 /\ MergedQueue(queues[jobs[k].type]).fieldsToResolve = jobs[j].fieldsToResolve)
                 => /\ jobs'[k].state = "running"
                    /\ jobs'[k].actualFieldsToResolve = jobs[j].actualFieldsToResolve]_vars

C28_Witness ==
    /\ jobs[1].state = "failed" /\ jobs[1].type = "Post"
    /\ jobs[1].actualFieldsToResolve = Shape1("a", Leaf)
    /\ preparedCache["Post"] = EmptyShape
    /\ calls[1].pc = "awaitPrepare"
    /\ jobs[2].state = "running" /\ jobs[2].type = "Post"
    /\ jobs[2].actualFieldsToResolve = Shape1("a", Leaf)
    /\ invocations["1"][<<"a">>] = 2

\* C29: the batching state is kept per type name: calls that wait for
\* requests on different types hold different promises, a job drains only
\* requests of its own type, and no step of a job changes the queue, the
\* promise or the prepared cache of another type.
C29_TypesAreIsolated ==
    /\ [](/\ \A c1, c2 \in CallIds :
               (Waiting(c1) /\ Waiting(c2) /\ calls[c1].type # calls[c2].type)
                   => calls[c1].promise # calls[c2].promise
           /\ \A j \in CallIds :
                 Started(j) => \A c \in jobs[j].drainedCalls : calls[c].type = jobs[j].type)
    /\ [][\A j \in CallIds :
             (jobs[j].state \in {"scheduled", "running"} /\ jobs'[j] # jobs[j])
                 => \A t \in BatchTypes \ {jobs[j].type} :
                       /\ queues'[t] = queues[t]
                       /\ promises'[t] = promises[t]
                       /\ preparedCache'[t] = preparedCache[t]]_vars

C29_Witness ==
    /\ calls[1].type = "Post" /\ calls[2].type = "Page"
    /\ jobs[1].state = "done" /\ jobs[1].drainedCalls = {1} /\ jobs[1].saves = 1
    /\ jobs[2].state = "scheduled" /\ tickQueue = <<2>>
    /\ Len(queues["Page"]) = 1 /\ queues["Page"][1].call = 2
    /\ promises["Page"] = 2 /\ promises["Post"] = 0
    /\ preparedCache["Post"] # EmptyShape /\ preparedCache["Page"] = EmptyShape

\* C31: for one list of modulesThatUseGatsby the js rule and the
\* dependencies rule never both apply to a module path: a path the js rule
\* includes (outside node_modules and bower_components, or inside a module
\* that uses Gatsby) is excluded by the dependencies rule, and a path the
\* dependencies rule does not exclude is not included by the js rule.
C31_RulesNeverBothApply ==
    matched.op = "match" =>
        /\ ~(matched.jsApplies /\ matched.dependenciesApplies)
        /\ matched.jsIncluded => matched.dependenciesExcluded
        /\ ~matched.dependenciesExcluded => ~matched.jsIncluded
        /\ matched.jsIncluded
              <=> \/ ~vendorRegex(matched.modulePath)
                  \/ usesGatsby(matched.modulesThatUseGatsby, matched.modulePath)

C31_Witness ==
    /\ matched.op = "match"
    /\ matched.modulePath = <<"/", "site", "/", "node_modules", "/", "gatsby-theme",
                                                "/", "index", ".js">>
    /\ Len(matched.modulesThatUseGatsby) = 1
    /\ matched.modulesThatUseGatsby[1].name = "gatsby-theme"
    /\ matched.jsApplies /\ matched.dependenciesExcluded /\ ~matched.dependenciesApplies

====
